---- MODULE Spec2Model ----
(***************************************************************************)
(* Model of the launch-taskrun service (cmd/launch-taskrun/main.go and     *)
(* cmd/launch-taskrun/konflux/ecp_lookup.go): the ConfigMap cache, the     *)
(* ReleasePlan / ReleasePlanAdmission lookup, the TaskRun builder and the  *)
(* circuit breaker with retry around the Tekton create call.               *)
(*                                                                         *)
(* Every CloudEvent is handled on its own goroutine; the model runs the    *)
(* handlers as the tasks of Tasks, each with a program counter pc[t].      *)
(* Time is counted in whole seconds by the variable now.                   *)
(***************************************************************************)
EXTENDS Integers, Sequences, FiniteSets, TLC

\* ------------------------------------------------------------------------
\* Bounds of the model
\* ------------------------------------------------------------------------
MaxTime == 2
MaxEvents == 2
CacheTTL == 2
\* longest ReleasePlan listing of a namespace the lookup is run on
MaxPlans == 2

Tasks == {"t1", "t2"}

\* ------------------------------------------------------------------------
\* Values
\* ------------------------------------------------------------------------
None == [none |-> TRUE]
\* nobody holds the lock
NoTask == "none"

\* the zero time.Time of a CircuitBreakerState that never recorded a failure
ZeroTime == -1
\* saturated result of time.Since on the zero time
MaxDuration == 1000000

DefaultMaxAttempts == 3
DefaultRetryDelay == 2
DefaultThreshold == 5
DefaultCircuitTimeout == 30
defaultEcpName == "registry-standard"
\* os.Getenv("POD_NAMESPACE") is unset: the fallback namespace
configNamespace == "default"

\* strconv.Atoi on the strings the ConfigMaps of the model hold
Atoi(s) ==
    CASE s = "1" -> [ok |-> TRUE, v |-> 1]
      [] s = "2" -> [ok |-> TRUE, v |-> 2]
      [] s = "3" -> [ok |-> TRUE, v |-> 3]
      [] s = "0" -> [ok |-> TRUE, v |-> 0]
      [] s = "-1" -> [ok |-> TRUE, v |-> -1]
      [] s = "40" -> [ok |-> TRUE, v |-> 40]
      [] OTHER -> [ok |-> FALSE, v |-> 0]

\* the pattern  if s != "" { if parsed, err := Atoi(s); err == nil && parsed > 0 {..} }
PositiveOr(s, default) ==
    IF s # "" /\ Atoi(s).ok /\ Atoi(s).v > 0 THEN Atoi(s).v ELSE default

\* variant: the retry count is read from the retry delay setting
maxAttemptsFromDelay(config) ==
    PositiveOr(config.TektonRetryDelaySeconds, DefaultMaxAttempts)

maxAttempts(config) == PositiveOr(config.TektonRetryAttempts, DefaultMaxAttempts)
retryDelay(config) == PositiveOr(config.TektonRetryDelaySeconds, DefaultRetryDelay)
threshold(config) == PositiveOr(config.CircuitBreakerThreshold, DefaultThreshold)
timeoutSeconds(config) == PositiveOr(config.CircuitBreakerTimeout, DefaultCircuitTimeout)

\* TaskRunConfig records the ConfigMap of the cluster may hold
\* (the keys POLICY_CONFIGURATION, PUBLIC_KEY, IGNORE_REKOR, STRICT, WORKERS,
\* DEBUG and TEKTON_TIMEOUT_SECONDS are absent from the ConfigMap unless a
\* record is made with them)
MkConfig(task, url, attempts, delay, thr, tmo) ==
    [TaskName |-> task, VsaUploadUrl |-> url,
     TektonRetryAttempts |-> attempts, TektonRetryDelaySeconds |-> delay,
     CircuitBreakerThreshold |-> thr, CircuitBreakerTimeout |-> tmo]

\* the field of a record for a key of the ConfigMap: readConfigMap leaves the
\* field the empty string when the ConfigMap does not have the key
Setting(cfg, key) == IF key \in DOMAIN cfg THEN cfg[key] ELSE ""

Configs ==
    { MkConfig("verify-conforma", "https://rekor", "", "1", "0", "abc"),
      MkConfig("", "https://rekor", "2", "1", "1", "1"),
      MkConfig("verify-conforma", "", "1", "", "2", "2"),
      MkConfig("verify-conforma", "https://rekor", "2", "1", "1", "1"),
      MkConfig("verify-conforma", "https://rekor", "1", "x", "2", "2"),
      MkConfig("verify-conforma", "https://rekor", "3", "1", "2", "1") }

\* ------------------------------------------------------------------------
\* The cluster: ReleasePlans by namespace (in listing order) and
\* ReleasePlanAdmissions
\* ------------------------------------------------------------------------
Namespaces == {"ns1", "ns2"}

MkPlan(app, target, rpa) == [Application |-> app, Target |-> target, RpaName |-> rpa]

ReleasePlans(ns) ==
    IF ns = "ns1"
    THEN << MkPlan("app-a", "target-ns", "rpa-1"),
            MkPlan("app-b", "target-ns", "rpa-empty"),
            MkPlan("app-a", "other-ns", "rpa-2"),
            MkPlan("app-c", "target-ns", "rpa-missing") >>
    ELSE << >>

ReleasePlanAdmissions ==
    { [Namespace |-> "target-ns", Name |-> "rpa-1", Policy |-> "custom-policy"],
      [Namespace |-> "target-ns", Name |-> "rpa-empty", Policy |-> ""],
      [Namespace |-> "other-ns", Name |-> "rpa-2", Policy |-> "other-policy"] }

\* the cluster the event pipeline runs against
FixedCluster ==
    [plans |-> [ns \in Namespaces |-> ReleasePlans(ns)], rpas |-> ReleasePlanAdmissions]

\* ------------------------------------------------------------------------
\* Events
\* ------------------------------------------------------------------------
BadJSON == [badJSON |-> TRUE]

MkEvent(api, kind, name, ns, spec) ==
    [APIVersion |-> api, Kind |-> kind, Name |-> name, Namespace |-> ns, Spec |-> spec]

SnapshotAPI == "appstudio.redhat.com/v1alpha1"

\* an event whose data event.DataAs cannot decode
BadEventData == [badData |-> TRUE]

Events ==
    { MkEvent(SnapshotAPI, "Snapshot", "snap-a", "ns1", [application |-> "app-a"]),
      MkEvent(SnapshotAPI, "Snapshot", "snap-c", "ns1", [application |-> "app-c"]),
      MkEvent(SnapshotAPI, "Snapshot", "snap-d", "ns1", [application |-> "app-d"]),
      MkEvent(SnapshotAPI, "Snapshot", "snap-e", "ns2", [application |-> "app-a"]),
      MkEvent(SnapshotAPI, "Snapshot", "snap-f", "ns1", BadJSON),
      MkEvent(SnapshotAPI, "Pod", "pod-1", "ns1", [application |-> "app-a"]),
      MkEvent("v1", "Snapshot", "snap-a", "ns1", [application |-> "app-a"]),
      BadEventData }

\* ------------------------------------------------------------------------
\* Errors: an error is the sequence of its messages, outermost first;
\* the empty sequence is nil
\* ------------------------------------------------------------------------
Nil == << >>
Wrap(msg, err) == <<msg>> \o err
ErrCircuitOpen == <<"circuit breaker is open for operation: create-taskrun">>
\* the error the i-th Create call of one retryWithBackoff returns when it fails
CreateErr(i) == <<"create error " \o ToString(i)>>

\* ------------------------------------------------------------------------
\* State
\* ------------------------------------------------------------------------
VARIABLES
    now,            \* wall clock, seconds
    configMapData,  \* the ConfigMap "taskrun-config" the cluster holds
    cache,          \* configMapCache.cache: key -> cachedConfigMap or None
    cb,             \* CircuitBreakerState: failures, lastFailure, isOpen
    cbMu,           \* CircuitBreakerState.mu: the task holding the write lock
    events,         \* number of CloudEvents delivered so far
    pc,             \* position of each handler
    ev,             \* the CloudEventData the handler works on
    config,         \* the *TaskRunConfig readConfigMap returned
    taskRun,        \* the *tektonv1.TaskRun createTaskRun returned
    attempt,        \* retryWithBackoff: loop variable
    lastErr,        \* retryWithBackoff: lastErr
    rbErr,          \* value retryWithBackoff returned
    wake,           \* time.Sleep(retryDelay): time the sleep ends
    tmp,            \* recordFailure: value of failures read by failures++
    result,         \* value handleCloudEvent returned
    cluster,        \* ReleasePlans by namespace and ReleasePlanAdmissions
    cacheMu,        \* configMapCache.mu: the writer and the set of readers
    cacheOp,        \* the configMapCache call each task is in
    mapFault,       \* the runtime stopped the process on a concurrent map access
    \* history variables
    calls,          \* Create calls made by the current retryWithBackoff
    fnFails,        \* ... of which failed
    fnOks,          \* ... of which succeeded
    chk,            \* what the breaker was like when checkCircuitBreaker read it
    recorded,       \* failures recorded since the last recorded success
    anySuccess,     \* some Create call has succeeded
    lastSet,        \* per key: record and time of the latest set, None after clear
    lastOp,         \* the latest cache call and what it returned
    resolved,       \* what findEcp returned to createTaskRun, None if not called
    timer,          \* per task: start and deadline of the Create call in flight
    reads,          \* history of the readConfigMap calls
    builds,         \* the two latest createTaskRun calls and their results
    faults,         \* Create calls that have failed so far
    effective,      \* the values the latest reading of the settings gave
    resolveOut      \* the latest FindEnterpriseContractPolicy call and its result

taskVars == <<pc, ev, config, taskRun, attempt, lastErr, rbErr, wake, tmp, result,
              calls, fnFails, fnOks, chk, resolved>>
cbVars == <<cb, cbMu, recorded, anySuccess>>
cacheVars == <<cache, lastSet, lastOp>>
lockVars == <<cacheMu, cacheOp, mapFault>>
clusterVars == <<cluster, resolveOut>>
auxVars == <<timer, reads, builds, faults, effective>>
vars == <<now, configMapData, events, taskVars, cbVars, cacheVars, lockVars, clusterVars,
          auxVars>>

CacheKeys == Namespaces \cup {configNamespace}

\* time.Since
Since(t) == IF t = ZeroTime THEN MaxDuration ELSE now - t

\* ------------------------------------------------------------------------
\* configMapCache
\* ------------------------------------------------------------------------
\* variant: an entry exactly TTL old still counts as fresh
FreshInclusive(entry) == Since(entry.timestamp) <= CacheTTL

\* get: the entry is returned while it is younger than the TTL
Fresh(entry) == Since(entry.timestamp) < CacheTTL

\* variant: an entry is returned whatever its age
getFoundAlways(key) == cache[key] # None

getFound(key) == cache[key] # None /\ Fresh(cache[key])

getConfig(key) == IF getFound(key) THEN cache[key].config ELSE None

\* get deletes the entry it finds expired
getCache(key) ==
    IF cache[key] # None /\ ~Fresh(cache[key])
    THEN [cache EXCEPT ![key] = None]
    ELSE cache

setCache(key, cfg) == [cache EXCEPT ![key] = [config |-> cfg, timestamp |-> now]]

clearCache == [k \in CacheKeys |-> None]

\* the three calls as steps, with the history of the cache
CacheGet(key) ==
    /\ cache' = getCache(key)
    /\ lastOp' = [op |-> "get", key |-> key, found |-> getFound(key),
                  config |-> getConfig(key), at |-> now]
    /\ UNCHANGED lastSet

CacheSet(key, cfg) ==
    /\ cache' = setCache(key, cfg)
    /\ lastSet' = [lastSet EXCEPT ![key] = [config |-> cfg, at |-> now]]
    /\ lastOp' = [op |-> "set", key |-> key, found |-> FALSE, config |-> cfg, at |-> now]

CacheClear ==
    /\ cache' = clearCache
    /\ lastSet' = [k \in CacheKeys |-> None]
    /\ lastOp' = [op |-> "clear", key |-> configNamespace, found |-> FALSE,
                  config |-> None, at |-> now]

\* ------------------------------------------------------------------------
\* konflux: ReleasePlan -> ReleasePlanAdmission -> policy
\* ------------------------------------------------------------------------
\* the calls a lookup makes on the cluster client
ListCall(ns) == [verb |-> "List", namespace |-> ns, name |-> ""]
GetCall(ns, name) == [verb |-> "Get", namespace |-> ns, name |-> name]

matchingPlans(appName, ns) ==
    SelectSeq(cluster.plans[ns], LAMBDA plan : plan.Application = appName)

\* variant: the last of the matching plans is taken
selectLastPlan(matching) == matching[Len(matching)]

\* rp = matchingPlans[0]
selectPlan(matching) == matching[1]

\* variant: an empty listing is reported like a listing without a match
FindReleasePlanOneError(appName, ns, listOk) ==
    IF ~listOk
    THEN [err |-> Wrap("failed to lookup release plan in namespace " \o ns,
                       <<"list error">>),
          rp |-> None, api |-> <<ListCall(ns)>>]
    ELSE IF Len(matchingPlans(appName, ns)) = 0
    THEN [err |-> <<"no release plans found for application name: " \o appName>>,
          rp |-> None, api |-> <<ListCall(ns)>>]
    ELSE [err |-> Nil, rp |-> selectPlan(matchingPlans(appName, ns)),
          api |-> <<ListCall(ns)>>]

FindReleasePlan(appName, ns, listOk) ==
    IF ~listOk
    THEN [err |-> Wrap("failed to lookup release plan in namespace " \o ns,
                       <<"list error">>),
          rp |-> None, api |-> <<ListCall(ns)>>]
    ELSE IF Len(cluster.plans[ns]) = 0
    THEN [err |-> <<"no release plans found in namespace " \o ns>>,
          rp |-> None, api |-> <<ListCall(ns)>>]
    ELSE IF Len(matchingPlans(appName, ns)) = 0
    THEN [err |-> <<"no release plans found for application name: " \o appName>>,
          rp |-> None, api |-> <<ListCall(ns)>>]
    ELSE [err |-> Nil, rp |-> selectPlan(matchingPlans(appName, ns)),
          api |-> <<ListCall(ns)>>]

\* variant: an admission that cannot be fetched is taken as one without a policy
FindReleasePlanAdmissionLenient(rp, getOk) ==
    LET found == {a \in cluster.rpas :
                     a.Namespace = rp.Target /\ a.Name = rp.RpaName}
    IN IF ~getOk \/ found = {}
       THEN [err |-> Nil,
             rpa |-> [Namespace |-> rp.Target, Name |-> rp.RpaName, Policy |-> ""],
             api |-> <<GetCall(rp.Target, rp.RpaName)>>]
       ELSE [err |-> Nil, rpa |-> CHOOSE a \in found : TRUE,
             api |-> <<GetCall(rp.Target, rp.RpaName)>>]

FindReleasePlanAdmission(rp, getOk) ==
    LET found == {a \in cluster.rpas :
                     a.Namespace = rp.Target /\ a.Name = rp.RpaName}
        msg == "failed to get release plan admission " \o rp.Target \o "/" \o rp.RpaName
    IN IF ~getOk
       THEN [err |-> Wrap(msg, <<"get error">>), rpa |-> None,
             api |-> <<GetCall(rp.Target, rp.RpaName)>>]
       ELSE IF found = {}
       THEN [err |-> Wrap(msg, <<"not found">>), rpa |-> None,
             api |-> <<GetCall(rp.Target, rp.RpaName)>>]
       ELSE [err |-> Nil, rpa |-> CHOOSE a \in found : TRUE,
             api |-> <<GetCall(rp.Target, rp.RpaName)>>]

\* variant: the policy field is used as it is
ecpNameAsIs(rpa) == rpa.Policy

\* the policy of the admission, or the default when it sets none
ecpName(rpa) == IF rpa.Policy = "" THEN defaultEcpName ELSE rpa.Policy

\* variant: a listing that failed is asked for once more
FindEnterpriseContractPolicyRelists(snapshot, listOk, getOk) ==
    IF snapshot.Spec = BadJSON
    THEN [err |-> Wrap("failed to unmarshal snapshot spec to extract application",
                       <<"invalid JSON">>), ecp |-> "", api |-> << >>]
    ELSE LET plan == FindReleasePlan(snapshot.Spec.application, snapshot.Namespace, listOk)
         IN IF plan.err # Nil
            THEN [err |-> plan.err, ecp |-> "",
                  api |-> IF listOk THEN plan.api ELSE plan.api \o plan.api]
            ELSE LET adm == FindReleasePlanAdmission(plan.rp, getOk)
                 IN IF adm.err # Nil
                    THEN [err |-> adm.err, ecp |-> "", api |-> plan.api \o adm.api]
                    ELSE [err |-> Nil,
                          ecp |-> adm.rpa.Namespace \o "/" \o ecpName(adm.rpa),
                          api |-> plan.api \o adm.api]

FindEnterpriseContractPolicy(snapshot, listOk, getOk) ==
    IF snapshot.Spec = BadJSON
    THEN [err |-> Wrap("failed to unmarshal snapshot spec to extract application",
                       <<"invalid JSON">>), ecp |-> "", api |-> << >>]
    ELSE LET plan == FindReleasePlan(snapshot.Spec.application, snapshot.Namespace, listOk)
         IN IF plan.err # Nil
            THEN [err |-> plan.err, ecp |-> "", api |-> plan.api]
            ELSE LET adm == FindReleasePlanAdmission(plan.rp, getOk)
                 IN IF adm.err # Nil
                    THEN [err |-> adm.err, ecp |-> "", api |-> plan.api \o adm.api]
                    ELSE [err |-> Nil,
                          ecp |-> adm.rpa.Namespace \o "/" \o ecpName(adm.rpa),
                          api |-> plan.api \o adm.api]

\* ------------------------------------------------------------------------
\* createTaskRun; found is what findEcp returned, None when it was not called
\* ------------------------------------------------------------------------
\* variant: the spec of the Snapshot is not decoded by createTaskRun
specDecodesAlways(snapshot) == TRUE

\* json.Unmarshal of the Snapshot spec succeeds
specDecodes(snapshot) == snapshot.Spec # BadJSON

\* variant: an error of findEcp is ignored
lookupFailedIgnored(found) == FALSE

\* findEcp returned an error
lookupFailed(found) == found.err # Nil

\* variant: an empty value is passed on as "false"
createParamValueFalse(value) == IF value = "" THEN "false" ELSE value

\* createParamValue: an empty value becomes "true"
createParamValue(value) == IF value = "" THEN "true" ELSE value

\* createNumericParamValue: an empty value becomes the default given
createNumericParamValue(value, defaultValue) == IF value = "" THEN defaultValue ELSE value

\* variant: the name does not hold the time
taskRunNameNoTime(snapshotName, unix) == "verify-conforma-" \o snapshotName

\* fmt.Sprintf("verify-conforma-%s-%d", snapshot.Name, time.Now().Unix())
taskRunName(snapshotName, unix) ==
    "verify-conforma-" \o snapshotName \o "-" \o ToString(unix)

\* variant: the upload URL is not validated
vsaUploadUrlAny(cfg) == TRUE

\* the upload URL is configured
vsaUploadUrlSet(cfg) == cfg.VsaUploadUrl # ""

createTaskRun(snapshot, cfg, taskNamespace, listOk, getOk) ==
    IF cfg.TaskName = ""
    THEN [taskRun |-> None, found |-> None,
          err |-> <<"TASK_NAME is required but not set in configmap">>]
    ELSE IF ~specDecodes(snapshot)
    THEN [taskRun |-> None, found |-> None,
          err |-> Wrap("failed to unmarshal snapshot spec to extract components",
                       <<"invalid JSON">>)]
    ELSE LET found == FindEnterpriseContractPolicy(snapshot, listOk, getOk)
         IN IF lookupFailed(found)
            THEN [taskRun |-> None, found |-> found, err |-> Nil]
            ELSE IF ~vsaUploadUrlSet(cfg)
            THEN [taskRun |-> None, found |-> found,
                  err |-> <<"VSA upload URL is not set">>]
            ELSE [taskRun |->
                      [Name |-> taskRunName(snapshot.Name, now),
                       Namespace |-> taskNamespace,
                       POLICY_CONFIGURATION |-> createParamValue(found.ecp),
                       PUBLIC_KEY |-> createParamValue(Setting(cfg, "PublicKey")),
                       VSA_UPLOAD_URL |-> cfg.VsaUploadUrl,
                       IGNORE_REKOR |-> createParamValue(Setting(cfg, "IgnoreRekor")),
                       STRICT |-> createParamValue(Setting(cfg, "Strict")),
                       WORKERS |-> createNumericParamValue(Setting(cfg, "Workers"), "1"),
                       DEBUG |-> createParamValue(Setting(cfg, "Debug")),
                       TaskName |-> cfg.TaskName],
                  found |-> found,
                  err |-> Nil]

\* ------------------------------------------------------------------------
\* Initial state: NewServiceWithDependencies
\* ------------------------------------------------------------------------
NoCheck == [open |-> FALSE, elapsed |-> FALSE, tripped |-> FALSE, done |-> FALSE]

\* no Create call has been given a deadline
NoTimer == << >>

\* no readConfigMap call has been made: the successful reads of the ConfigMap
\* (time and record), the latest of them, the times the calls started, and,
\* for the task of each call in progress, what of these the call found when
\* it started, when it started and whether it has read the ConfigMap
NoReads == [fetched |-> {}, starts |-> {}, latest |-> None, call |-> << >>]

\* the task is in no configMapCache call
NoOp == [pc |-> "idle", key |-> "", config |-> None]

TaskInit ==
    /\ pc = [t \in Tasks |-> "idle"]
    /\ ev = [t \in Tasks |-> None]
    /\ config = [t \in Tasks |-> None]
    /\ taskRun = [t \in Tasks |-> None]
    /\ attempt = [t \in Tasks |-> 0]
    /\ lastErr = [t \in Tasks |-> Nil]
    /\ rbErr = [t \in Tasks |-> Nil]
    /\ wake = [t \in Tasks |-> 0]
    /\ tmp = [t \in Tasks |-> 0]
    /\ result = [t \in Tasks |-> Nil]
    /\ calls = [t \in Tasks |-> 0]
    /\ fnFails = [t \in Tasks |-> 0]
    /\ fnOks = [t \in Tasks |-> 0]
    /\ chk = [t \in Tasks |-> NoCheck]
    /\ resolved = [t \in Tasks |-> None]
    /\ timer = NoTimer

ServiceInit ==
    /\ now = 0
    /\ events = 0
    /\ cache = [k \in CacheKeys |-> None]
    /\ lastSet = [k \in CacheKeys |-> None]
    /\ lastOp = [op |-> "none", key |-> configNamespace, found |-> FALSE,
                 config |-> None, at |-> 0]
    /\ cb = [failures |-> 0, lastFailure |-> ZeroTime, isOpen |-> FALSE]
    /\ cbMu = NoTask
    /\ recorded = 0
    /\ anySuccess = FALSE
    /\ cacheMu = [writer |-> NoTask, readers |-> {}]
    /\ cacheOp = [t \in Tasks |-> NoOp]
    /\ mapFault = FALSE
    /\ reads = NoReads
    /\ builds = << >>
    /\ faults = 0
    /\ effective = None

\* the cluster of the pipeline; no lookup has been made
ClusterInit ==
    /\ cluster = FixedCluster
    /\ resolveOut = None

Init ==
    /\ configMapData \in Configs
    /\ ClusterInit
    /\ ServiceInit
    /\ TaskInit

\* ------------------------------------------------------------------------
\* handleCloudEvent / processSnapshot
\* ------------------------------------------------------------------------
\* variant: the apiVersion of the event is not looked at
AcceptedAnyVersion(e) == e # BadEventData /\ e.Kind = "Snapshot"

Accepted(e) == e # BadEventData /\ e.Kind = "Snapshot" /\ e.APIVersion = SnapshotAPI

\* a handler returns err
Finish(t, err) ==
    /\ pc' = [pc EXCEPT ![t] = "done"]
    /\ result' = [result EXCEPT ![t] = err]

\* handleCloudEvent for the event e
handleCloudEventStep(t, e) ==
    /\ pc[t] = "idle"
    /\ ev' = [ev EXCEPT ![t] = e]
    /\ IF e = BadEventData
       THEN Finish(t, Wrap("failed to parse event data", <<"decode error">>))
       ELSE IF Accepted(e)
       THEN /\ pc' = [pc EXCEPT ![t] = "readConfigMap"]
            /\ UNCHANGED result
       ELSE Finish(t, Nil)
    /\ UNCHANGED <<now, configMapData, clusterVars, lockVars, auxVars, resolved,
                   config, taskRun, attempt, lastErr, rbErr, wake,
                   tmp, calls, fnFails, fnOks, chk, cbVars, cacheVars>>

\* one more of the MaxEvents events is delivered
handleCloudEvent(t, e) ==
    /\ events < MaxEvents
    /\ events' = events + 1
    /\ handleCloudEventStep(t, e)

\* readConfigMap, up to the cache lookup (get runs as one step here)
readConfigMapGetStep(t) ==
    /\ pc[t] = "readConfigMap"
    /\ cache' = getCache(configNamespace)
    /\ IF getFound(configNamespace)
       THEN /\ config' = [config EXCEPT ![t] = getConfig(configNamespace)]
            /\ pc' = [pc EXCEPT ![t] = "createTaskRun"]
       ELSE /\ pc' = [pc EXCEPT ![t] = "fetchConfigMap"]
            /\ UNCHANGED config
    /\ UNCHANGED <<now, configMapData, clusterVars, lockVars, timer, builds, faults, effective, resolved,
                   events, ev, taskRun, attempt, lastErr, rbErr, wake,
                   tmp, result, calls, fnFails, fnOks, chk, cbVars, lastSet, lastOp>>

readConfigMapGet(t) == readConfigMapGetStep(t) /\ UNCHANGED reads

\* variant: a failed read leaves an empty record in the cache
readConfigMapFetchStepCachesFailure(t, getOk) ==
    /\ pc[t] = "fetchConfigMap"
    /\ IF getOk
       THEN /\ cache' = setCache(configNamespace, configMapData)
            /\ config' = [config EXCEPT ![t] = configMapData]
            /\ pc' = [pc EXCEPT ![t] = "createTaskRun"]
            /\ UNCHANGED result
       ELSE /\ Finish(t, Wrap("failed to read configmap",
                              Wrap("failed to get configmap", <<"get error">>)))
            /\ cache' = setCache(configNamespace, MkConfig("", "", "", "", "", ""))
            /\ UNCHANGED config
    /\ UNCHANGED <<now, configMapData, clusterVars, lockVars, timer, builds, faults, effective, resolved,
                   events, ev, taskRun, attempt, lastErr, rbErr, wake,
                   tmp, calls, fnFails, fnOks, chk, cbVars, lastSet, lastOp>>

\* readConfigMap after a miss: the ConfigMap is read from the cluster and cached
readConfigMapFetchStep(t, getOk) ==
    /\ pc[t] = "fetchConfigMap"
    /\ IF getOk
       THEN /\ cache' = setCache(configNamespace, configMapData)
            /\ config' = [config EXCEPT ![t] = configMapData]
            /\ pc' = [pc EXCEPT ![t] = "createTaskRun"]
            /\ UNCHANGED result
       ELSE /\ Finish(t, Wrap("failed to read configmap",
                              Wrap("failed to get configmap", <<"get error">>)))
            /\ UNCHANGED <<cache, config>>
    /\ UNCHANGED <<now, configMapData, clusterVars, lockVars, timer, builds, faults, effective, resolved,
                   events, ev, taskRun, attempt, lastErr, rbErr, wake,
                   tmp, calls, fnFails, fnOks, chk, cbVars, lastSet, lastOp>>

readConfigMapFetch(t, getOk) == readConfigMapFetchStep(t, getOk) /\ UNCHANGED reads

\* variant: an error of createTaskRun is counted by the circuit breaker
processSnapshotCreateCountsFailure(t, listOk, getOk) ==
    /\ pc[t] = "createTaskRun"
    /\ LET snapshot == [Name |-> ev[t].Name, Namespace |-> ev[t].Namespace,
                        Spec |-> ev[t].Spec]
           built == createTaskRun(snapshot, config[t], configNamespace, listOk, getOk)
       IN /\ resolved' = [resolved EXCEPT ![t] = built.found]
          /\ IF built.err # Nil
             THEN /\ Finish(t, Wrap("failed to create taskrun", built.err))
                  /\ cb' = [cb EXCEPT !.failures = @ + 1, !.lastFailure = now]
                  /\ UNCHANGED taskRun
             ELSE IF built.taskRun = None
             THEN /\ Finish(t, Nil)
                  /\ UNCHANGED <<taskRun, cb>>
             ELSE /\ taskRun' = [taskRun EXCEPT ![t] = built.taskRun]
                  /\ pc' = [pc EXCEPT ![t] = "checkCircuitBreaker"]
                  /\ UNCHANGED <<result, cb>>
    /\ UNCHANGED <<now, configMapData, clusterVars, lockVars, auxVars,
                   events, ev, config, attempt, lastErr, rbErr, wake,
                   tmp, calls, fnFails, fnOks, chk, cbMu, recorded, anySuccess, cacheVars>>

\* processSnapshot from the createTaskRun call to the start of retryWithBackoff
processSnapshotCreate(t, listOk, getOk) ==
    /\ pc[t] = "createTaskRun"
    /\ LET snapshot == [Name |-> ev[t].Name, Namespace |-> ev[t].Namespace,
                        Spec |-> ev[t].Spec]
           built == createTaskRun(snapshot, config[t], configNamespace, listOk, getOk)
       IN /\ resolved' = [resolved EXCEPT ![t] = built.found]
          /\ IF built.err # Nil
             THEN /\ Finish(t, Wrap("failed to create taskrun", built.err))
                  /\ UNCHANGED taskRun
             ELSE IF built.taskRun = None
             THEN /\ Finish(t, Nil)
                  /\ UNCHANGED taskRun
             ELSE /\ taskRun' = [taskRun EXCEPT ![t] = built.taskRun]
                  /\ pc' = [pc EXCEPT ![t] = "checkCircuitBreaker"]
                  /\ UNCHANGED result
    /\ UNCHANGED <<now, configMapData, clusterVars, lockVars, auxVars,
                   events, ev, config, attempt, lastErr, rbErr, wake,
                   tmp, calls, fnFails, fnOks, chk, cbVars, cacheVars>>

\* the namespace of the Create call: TaskRuns(snapshot.Namespace)
createNamespace(t) == ev[t].Namespace

\* ------------------------------------------------------------------------
\* Circuit breaker and retry
\* ------------------------------------------------------------------------
\* sync.RWMutex of the breaker: RLock waits for the writer, Lock for everybody.
\* Readers never keep the lock across a step of the model.
canRLock == cbMu = NoTask
\* variant: Lock does not wait for the holder
canLockAlways == TRUE
canLock == cbMu = NoTask

\* variant: the circuit timeout never runs out
timeoutExpiredNever(cfg) == FALSE

\* the circuit timeout has passed since the last failure
timeoutExpired(cfg) == Since(cb.lastFailure) > timeoutSeconds(cfg)

\* variant: the operation is let through as soon as the timeout is reached
checkCircuitBreakerAtTimeout(cfg) ==
    cb.isOpen /\ Since(cb.lastFailure) < timeoutSeconds(cfg)

\* checkCircuitBreaker: TRUE blocks the operation
checkCircuitBreaker(cfg) ==
    IF ~cb.isOpen THEN FALSE
    ELSE IF timeoutExpired(cfg) THEN FALSE
    ELSE TRUE

\* variant: the breaker opens only above the threshold
recordFailureStateAbove(read, cfg) ==
    [failures |-> read + 1,
     lastFailure |-> now,
     isOpen |-> IF read + 1 > threshold(cfg) /\ ~cb.isOpen THEN TRUE ELSE cb.isOpen]

\* variant: the breaker opens one failure early
recordFailureStateEarly(read, cfg) ==
    [failures |-> read + 1,
     lastFailure |-> now,
     isOpen |-> IF read + 2 >= threshold(cfg) /\ ~cb.isOpen THEN TRUE ELSE cb.isOpen]

\* variant: a failure of an open breaker does not move the time of the last failure
recordFailureStateKeepsTime(read, cfg) ==
    [failures |-> read + 1,
     lastFailure |-> IF cb.isOpen THEN cb.lastFailure ELSE now,
     isOpen |-> IF read + 1 >= threshold(cfg) /\ ~cb.isOpen THEN TRUE ELSE cb.isOpen]

\* recordFailure, given the value failures++ read
recordFailureState(read, cfg) ==
    [failures |-> read + 1,
     lastFailure |-> now,
     isOpen |-> IF read + 1 >= threshold(cfg) /\ ~cb.isOpen THEN TRUE ELSE cb.isOpen]

\* variant: the reset is done only when the breaker was open
recordSuccessStateIfOpen ==
    IF cb.isOpen THEN [cb EXCEPT !.failures = 0, !.isOpen = FALSE] ELSE cb

recordSuccessState == [cb EXCEPT !.failures = 0, !.isOpen = FALSE]

\* variant: the loop stops one attempt short
moreAttemptsShort(a, cfg) == a + 1 < maxAttempts(cfg)

\* retryWithBackoff: another attempt follows a failed one
moreAttempts(a, cfg) == a < maxAttempts(cfg)

\* variant: a rejected call is counted as a failure
retryCheckCountsRejection(t) ==
    /\ pc[t] = "checkCircuitBreaker"
    /\ canRLock
    /\ chk' = [chk EXCEPT ![t] = [open |-> cb.isOpen,
                                  elapsed |-> Since(cb.lastFailure) >
                                                  timeoutSeconds(config[t]),
                                  tripped |-> ~anySuccess /\ recorded >= threshold(config[t]),
                                  done |-> TRUE]]
    /\ IF checkCircuitBreaker(config[t])
       THEN /\ rbErr' = [rbErr EXCEPT ![t] = ErrCircuitOpen]
            /\ cb' = [cb EXCEPT !.failures = @ + 1]
            /\ recorded' = recorded + 1
            /\ UNCHANGED <<cbMu, anySuccess>>
            /\ pc' = [pc EXCEPT ![t] = "returned"]
            /\ UNCHANGED attempt
       ELSE /\ attempt' = [attempt EXCEPT ![t] = 1]
            /\ pc' = [pc EXCEPT ![t] = "call"]
            /\ UNCHANGED <<rbErr, cbVars>>
    /\ UNCHANGED <<now, configMapData, clusterVars, lockVars, auxVars, resolved,
                   events, ev, config, taskRun, lastErr, wake, tmp,
                   result, calls, fnFails, fnOks, cacheVars>>

\* retryWithBackoff, the circuit breaker check
retryCheck(t) ==
    /\ pc[t] = "checkCircuitBreaker"
    /\ canRLock
    /\ chk' = [chk EXCEPT ![t] = [open |-> cb.isOpen,
                                  elapsed |-> Since(cb.lastFailure) >
                                                  timeoutSeconds(config[t]),
                                  tripped |-> ~anySuccess /\ recorded >= threshold(config[t]),
                                  done |-> TRUE]]
    /\ IF checkCircuitBreaker(config[t])
       THEN /\ rbErr' = [rbErr EXCEPT ![t] = ErrCircuitOpen]
            /\ pc' = [pc EXCEPT ![t] = "returned"]
            /\ UNCHANGED attempt
       ELSE /\ attempt' = [attempt EXCEPT ![t] = 1]
            /\ pc' = [pc EXCEPT ![t] = "call"]
            /\ UNCHANGED rbErr
    /\ UNCHANGED <<now, configMapData, clusterVars, lockVars, auxVars, resolved,
                   events, ev, config, taskRun, lastErr, wake, tmp,
                   result, calls, fnFails, fnOks, cbVars, cacheVars>>

\* variant: the breaker is asked again before every attempt
fnInvokeStepRechecks(t) ==
    /\ pc[t] = "call"
    /\ IF checkCircuitBreaker(config[t])
       THEN /\ rbErr' = [rbErr EXCEPT ![t] = ErrCircuitOpen]
            /\ pc' = [pc EXCEPT ![t] = "returned"]
            /\ UNCHANGED calls
       ELSE /\ calls' = [calls EXCEPT ![t] = @ + 1]
            /\ pc' = [pc EXCEPT ![t] = "inflight"]
            /\ UNCHANGED rbErr
    /\ UNCHANGED <<now, configMapData, clusterVars, lockVars, reads, builds, faults, effective,
                   resolved,
                   events, ev, config, taskRun, attempt, lastErr,
                   wake, tmp, result, fnFails, fnOks, chk, cbVars, cacheVars>>

\* fn(): the Create call goes out to Tekton
fnInvokeStep(t) ==
    /\ pc[t] = "call"
    /\ calls' = [calls EXCEPT ![t] = @ + 1]
    /\ pc' = [pc EXCEPT ![t] = "inflight"]
    /\ UNCHANGED <<now, configMapData, clusterVars, lockVars, reads, builds, faults, effective,
                   resolved,
                   events, ev, config, taskRun, attempt, lastErr, rbErr,
                   wake, tmp, result, fnFails, fnOks, chk, cbVars, cacheVars>>

fnInvoke(t) == fnInvokeStep(t) /\ UNCHANGED timer

\* fn() returns: created, or an error (the per-call timeout included)
fnReturnStep(t, ok) ==
    /\ pc[t] = "inflight"
    /\ IF ok
       THEN /\ fnOks' = [fnOks EXCEPT ![t] = @ + 1]
            /\ anySuccess' = TRUE
            /\ pc' = [pc EXCEPT ![t] = "recordSuccess"]
            /\ UNCHANGED <<fnFails, lastErr>>
       ELSE /\ fnFails' = [fnFails EXCEPT ![t] = @ + 1]
            /\ lastErr' = [lastErr EXCEPT ![t] = CreateErr(calls[t])]
            /\ pc' = [pc EXCEPT ![t] = "recordFailure"]
            /\ UNCHANGED <<fnOks, anySuccess>>
    /\ UNCHANGED <<now, configMapData, clusterVars, lockVars, reads, builds, effective,
                   resolved,
                   events, ev, config, taskRun, attempt, rbErr, wake,
                   tmp, result, calls, chk, cb, cbMu, recorded, cacheVars>>

fnReturn(t, ok) == fnReturnStep(t, ok) /\ UNCHANGED <<timer, faults>>

\* recordFailure: mu.Lock() and the read of failures++
recordFailureLock(t) ==
    /\ pc[t] = "recordFailure"
    /\ canLock
    /\ cbMu' = t
    /\ tmp' = [tmp EXCEPT ![t] = cb.failures]
    /\ pc' = [pc EXCEPT ![t] = "recordFailureBody"]
    /\ UNCHANGED <<now, configMapData, clusterVars, lockVars, auxVars, resolved,
                   events, ev, config, taskRun, attempt, lastErr, rbErr,
                   wake, result, calls, fnFails, fnOks, chk, cb, recorded, anySuccess,
                   cacheVars>>

\* variant: the lock is not released before the sleep
recordFailureBodyHoldsLock(t) ==
    /\ pc[t] = "recordFailureBody"
    /\ cb' = recordFailureState(tmp[t], config[t])
    /\ cbMu' = IF moreAttempts(attempt[t], config[t]) THEN t ELSE NoTask
    /\ recorded' = recorded + 1
    /\ tmp' = [tmp EXCEPT ![t] = 0]
    /\ IF moreAttempts(attempt[t], config[t])
       THEN /\ wake' = [wake EXCEPT ![t] = now + retryDelay(config[t])]
            /\ pc' = [pc EXCEPT ![t] = "sleep"]
            /\ UNCHANGED rbErr
       ELSE /\ rbErr' = [rbErr EXCEPT ![t] = lastErr[t]]
            /\ pc' = [pc EXCEPT ![t] = "returned"]
            /\ UNCHANGED wake
    /\ UNCHANGED <<now, configMapData, clusterVars, lockVars, auxVars, resolved,
                   events, ev, config, taskRun, attempt, lastErr,
                   result, calls, fnFails, fnOks, chk, anySuccess, cacheVars>>

\* recordFailure: the writes and the deferred Unlock, then retryWithBackoff
\* up to the sleep or the return
recordFailureBody(t) ==
    /\ pc[t] = "recordFailureBody"
    /\ cb' = recordFailureState(tmp[t], config[t])
    /\ cbMu' = NoTask
    /\ recorded' = recorded + 1
    /\ tmp' = [tmp EXCEPT ![t] = 0]
    /\ IF moreAttempts(attempt[t], config[t])
       THEN /\ wake' = [wake EXCEPT ![t] = now + retryDelay(config[t])]
            /\ pc' = [pc EXCEPT ![t] = "sleep"]
            /\ UNCHANGED rbErr
       ELSE /\ rbErr' = [rbErr EXCEPT ![t] = lastErr[t]]
            /\ pc' = [pc EXCEPT ![t] = "returned"]
            /\ UNCHANGED wake
    /\ UNCHANGED <<now, configMapData, clusterVars, lockVars, auxVars, resolved,
                   events, ev, config, taskRun, attempt, lastErr,
                   result, calls, fnFails, fnOks, chk, anySuccess, cacheVars>>

\* variant: the loop variable is not advanced
sleepDoneSameAttempt(t) ==
    /\ pc[t] = "sleep"
    /\ now >= wake[t]
    /\ wake' = [wake EXCEPT ![t] = 0]
    /\ pc' = [pc EXCEPT ![t] = "call"]
    /\ UNCHANGED <<now, configMapData, clusterVars, lockVars, auxVars, resolved,
                   events, ev, config, taskRun, attempt, lastErr, rbErr, tmp,
                   result, calls, fnFails, fnOks, chk, cbVars, cacheVars>>

\* time.Sleep(retryDelay) is over: continue with the next attempt
sleepDone(t) ==
    /\ pc[t] = "sleep"
    /\ now >= wake[t]
    /\ attempt' = [attempt EXCEPT ![t] = @ + 1]
    /\ wake' = [wake EXCEPT ![t] = 0]
    /\ pc' = [pc EXCEPT ![t] = "call"]
    /\ UNCHANGED <<now, configMapData, clusterVars, lockVars, auxVars, resolved,
                   events, ev, config, taskRun, lastErr, rbErr, tmp,
                   result, calls, fnFails, fnOks, chk, cbVars, cacheVars>>

\* recordSuccess, and retryWithBackoff returns nil
recordSuccess(t) ==
    /\ pc[t] = "recordSuccess"
    /\ canLock
    /\ cb' = recordSuccessState
    /\ recorded' = 0
    /\ rbErr' = [rbErr EXCEPT ![t] = Nil]
    /\ pc' = [pc EXCEPT ![t] = "returned"]
    /\ UNCHANGED <<now, configMapData, clusterVars, lockVars, auxVars, resolved,
                   events, ev, config, taskRun, attempt, lastErr, wake,
                   tmp, result, calls, fnFails, fnOks, chk, cbMu, anySuccess, cacheVars>>

\* variant: the error of the circuit breaker is not passed on
processSnapshotFinishLenient(t) ==
    /\ pc[t] = "returned"
    /\ IF rbErr[t] # Nil /\ rbErr[t] # ErrCircuitOpen
       THEN Finish(t, Wrap("failed to create taskrun in cluster after retries", rbErr[t]))
       ELSE Finish(t, Nil)
    /\ UNCHANGED <<now, configMapData, clusterVars, lockVars, auxVars, resolved,
                   events, ev, config, taskRun, attempt, lastErr, rbErr,
                   wake, tmp, calls, fnFails, fnOks, chk, cbVars, cacheVars>>

\* processSnapshot after retryWithBackoff
processSnapshotFinish(t) ==
    /\ pc[t] = "returned"
    /\ IF rbErr[t] # Nil
       THEN Finish(t, Wrap("failed to create taskrun in cluster after retries", rbErr[t]))
       ELSE Finish(t, Nil)
    /\ UNCHANGED <<now, configMapData, clusterVars, lockVars, auxVars, resolved,
                   events, ev, config, taskRun, attempt, lastErr, rbErr,
                   wake, tmp, calls, fnFails, fnOks, chk, cbVars, cacheVars>>

\* the goroutine of the event ends; the task is free for the next event
handlerExit(t) ==
    /\ pc[t] = "done"
    /\ pc' = [pc EXCEPT ![t] = "idle"]
    /\ ev' = [ev EXCEPT ![t] = None]
    /\ config' = [config EXCEPT ![t] = None]
    /\ taskRun' = [taskRun EXCEPT ![t] = None]
    /\ attempt' = [attempt EXCEPT ![t] = 0]
    /\ lastErr' = [lastErr EXCEPT ![t] = Nil]
    /\ rbErr' = [rbErr EXCEPT ![t] = Nil]
    /\ result' = [result EXCEPT ![t] = Nil]
    /\ calls' = [calls EXCEPT ![t] = 0]
    /\ fnFails' = [fnFails EXCEPT ![t] = 0]
    /\ fnOks' = [fnOks EXCEPT ![t] = 0]
    /\ chk' = [chk EXCEPT ![t] = NoCheck]
    /\ resolved' = [resolved EXCEPT ![t] = None]
    /\ UNCHANGED <<now, configMapData, clusterVars, lockVars, auxVars,
                   events, wake, tmp, cbVars, cacheVars>>

\* a second passes
Tick ==
    /\ now < MaxTime
    /\ now' = now + 1
    /\ UNCHANGED <<configMapData, clusterVars, lockVars, auxVars, events, taskVars, cbVars,
                   cacheVars>>

Next ==
    \/ \E t \in Tasks, e \in Events : handleCloudEvent(t, e)
    \/ \E t \in Tasks : readConfigMapGet(t)
    \/ \E t \in Tasks, getOk \in BOOLEAN : readConfigMapFetch(t, getOk)
    \/ \E t \in Tasks, listOk \in BOOLEAN, getOk \in BOOLEAN :
          processSnapshotCreate(t, listOk, getOk)
    \/ \E t \in Tasks : retryCheck(t)
    \/ \E t \in Tasks : fnInvoke(t)
    \/ \E t \in Tasks, ok \in BOOLEAN : fnReturn(t, ok)
    \/ \E t \in Tasks : recordFailureLock(t)
    \/ \E t \in Tasks : recordFailureBody(t)
    \/ \E t \in Tasks : sleepDone(t)
    \/ \E t \in Tasks : recordSuccess(t)
    \/ \E t \in Tasks : processSnapshotFinish(t)
    \/ \E t \in Tasks : handlerExit(t)
    \/ Tick

Spec == Init /\ [][Next]_vars

\* ------------------------------------------------------------------------
\* The cache on its own: any sequence of set, get and clear calls, any key,
\* any record, with time passing between the calls
\* ------------------------------------------------------------------------
CacheRecords ==
    { MkConfig("verify-conforma", "https://rekor", "", "1", "0", "abc"),
      MkConfig("", "https://rekor", "2", "1", "1", "1") }

cacheGetCall(key) ==
    /\ CacheGet(key)
    /\ UNCHANGED <<now, configMapData, clusterVars, lockVars, auxVars,
                   events, taskVars, cbVars>>

cacheSetCall(key, cfg) ==
    /\ CacheSet(key, cfg)
    /\ UNCHANGED <<now, configMapData, clusterVars, lockVars, auxVars,
                   events, taskVars, cbVars>>

cacheClearCall ==
    /\ CacheClear
    /\ UNCHANGED <<now, configMapData, clusterVars, lockVars, auxVars,
                   events, taskVars, cbVars>>

CacheInit ==
    /\ configMapData \in CacheRecords
    /\ ClusterInit
    /\ ServiceInit
    /\ TaskInit

CacheNext ==
    \/ \E key \in CacheKeys : cacheGetCall(key)
    \/ \E key \in CacheKeys, cfg \in CacheRecords : cacheSetCall(key, cfg)
    \/ cacheClearCall
    \/ Tick

CacheSpec == CacheInit /\ [][CacheNext]_vars

\* ------------------------------------------------------------------------
\* The cache under concurrent callers: each of get, set and clear takes the
\* lock of the cache, works on the map and releases the lock
\* ------------------------------------------------------------------------
\* sync.RWMutex of the cache: RLock waits for the writer to leave, Lock for
\* the writer and for every reader
canRLockCache == cacheMu.writer = NoTask
canLockCache == cacheMu.writer = NoTask /\ cacheMu.readers = {}

\* other tasks inside get, between their RLock and their RUnlock
otherReaders(t) == cacheMu.readers \ {t}

\* get: c.mu.RLock()
getRLock(t, key) ==
    /\ ~mapFault
    /\ cacheOp[t].pc = "idle"
    /\ canRLockCache
    /\ cacheMu' = [cacheMu EXCEPT !.readers = @ \cup {t}]
    /\ cacheOp' = [cacheOp EXCEPT ![t] = [pc |-> "getLookup", key |-> key, config |-> None]]
    /\ UNCHANGED <<now, configMapData, auxVars, events, taskVars, cbVars, cacheVars, mapFault,
                   clusterVars>>

\* get: the map lookup and the age test
getLookup(t) ==
    /\ ~mapFault
    /\ cacheOp[t].pc = "getLookup"
    /\ LET cached == cache[cacheOp[t].key]
       IN cacheOp' = [cacheOp EXCEPT ![t] =
              IF cached = None THEN [@ EXCEPT !.pc = "getReturn"]
              ELSE IF Fresh(cached)
              THEN [@ EXCEPT !.pc = "getReturn", !.config = cached.config]
              ELSE [@ EXCEPT !.pc = "getDelete"]]
    /\ UNCHANGED <<now, configMapData, auxVars, events, taskVars, cbVars, cacheVars, cacheMu,
                   mapFault, clusterVars>>

\* get: delete(c.cache, key), with the read lock held.  The write is not
\* ordered with the map accesses of the other readers; when there is one the
\* runtime may stop the process (concurrent map read and map write, or
\* concurrent map writes)
getDelete(t, fault) ==
    /\ ~mapFault
    /\ cacheOp[t].pc = "getDelete"
    /\ fault => otherReaders(t) # {}
    /\ IF fault
       THEN /\ mapFault' = TRUE
            /\ UNCHANGED cache
       ELSE /\ cache' = [cache EXCEPT ![cacheOp[t].key] = None]
            /\ UNCHANGED mapFault
    /\ cacheOp' = [cacheOp EXCEPT ![t].pc = "getReturn"]
    /\ UNCHANGED <<now, configMapData, auxVars, events, taskVars, cbVars, lastSet, lastOp, cacheMu,
                   clusterVars>>

\* get: the deferred RUnlock and the return
getRUnlock(t) ==
    /\ ~mapFault
    /\ cacheOp[t].pc = "getReturn"
    /\ cacheMu' = [cacheMu EXCEPT !.readers = @ \ {t}]
    /\ cacheOp' = [cacheOp EXCEPT ![t] = NoOp]
    /\ UNCHANGED <<now, configMapData, auxVars, events, taskVars, cbVars, cacheVars, mapFault,
                   clusterVars>>

\* set: c.mu.Lock()
setLock(t, key, cfg) ==
    /\ ~mapFault
    /\ cacheOp[t].pc = "idle"
    /\ canLockCache
    /\ cacheMu' = [cacheMu EXCEPT !.writer = t]
    /\ cacheOp' = [cacheOp EXCEPT ![t] = [pc |-> "setWrite", key |-> key, config |-> cfg]]
    /\ UNCHANGED <<now, configMapData, auxVars, events, taskVars, cbVars, cacheVars, mapFault,
                   clusterVars>>

\* set: the map write and the deferred Unlock
setWrite(t) ==
    /\ ~mapFault
    /\ cacheOp[t].pc = "setWrite"
    /\ cache' = setCache(cacheOp[t].key, cacheOp[t].config)
    /\ cacheMu' = [cacheMu EXCEPT !.writer = NoTask]
    /\ cacheOp' = [cacheOp EXCEPT ![t] = NoOp]
    /\ UNCHANGED <<now, configMapData, auxVars, events, taskVars, cbVars, lastSet, lastOp, mapFault,
                   clusterVars>>

\* clear: c.mu.Lock()
clearLock(t) ==
    /\ ~mapFault
    /\ cacheOp[t].pc = "idle"
    /\ canLockCache
    /\ cacheMu' = [cacheMu EXCEPT !.writer = t]
    /\ cacheOp' = [cacheOp EXCEPT ![t].pc = "clearWrite"]
    /\ UNCHANGED <<now, configMapData, auxVars, events, taskVars, cbVars, cacheVars, mapFault,
                   clusterVars>>

\* clear: the map is replaced by an empty one, and the deferred Unlock
clearWrite(t) ==
    /\ ~mapFault
    /\ cacheOp[t].pc = "clearWrite"
    /\ cache' = clearCache
    /\ cacheMu' = [cacheMu EXCEPT !.writer = NoTask]
    /\ cacheOp' = [cacheOp EXCEPT ![t] = NoOp]
    /\ UNCHANGED <<now, configMapData, auxVars, events, taskVars, cbVars, lastSet, lastOp, mapFault,
                   clusterVars>>

LockNext ==
    \/ \E t \in Tasks, key \in CacheKeys : getRLock(t, key)
    \/ \E t \in Tasks : getLookup(t)
    \/ \E t \in Tasks, fault \in BOOLEAN : getDelete(t, fault)
    \/ \E t \in Tasks : getRUnlock(t)
    \/ \E t \in Tasks, key \in CacheKeys, cfg \in CacheRecords : setLock(t, key, cfg)
    \/ \E t \in Tasks : setWrite(t)
    \/ \E t \in Tasks : clearLock(t)
    \/ \E t \in Tasks : clearWrite(t)
    \/ Tick

CacheLockSpec == CacheInit /\ [][LockNext]_vars

\* ------------------------------------------------------------------------
\* The lookup on its own: FindEnterpriseContractPolicy is called for any
\* Snapshot on any cluster with up to MaxPlans ReleasePlans in namespace ns1
\* ------------------------------------------------------------------------
\* the (namespace, name) keys ReleasePlans point to
AdmissionKeys ==
    { <<"target-ns", "rpa-1">>, <<"target-ns", "rpa-2">>, <<"other-ns", "rpa-1">> }

PlanChoices ==
    { MkPlan(app, k[1], k[2]) : app \in {"app-a", "app-b"}, k \in AdmissionKeys }

PlanLists == UNION { [1..n -> PlanChoices] : n \in 0..MaxPlans }

\* no ReleasePlanAdmission under the key
Absent == "absent"

\* at most one ReleasePlanAdmission per key, each with a policy or without one
AdmissionSets ==
    { { [Namespace |-> k[1], Name |-> k[2], Policy |-> f[k]] :
            k \in {x \in AdmissionKeys : f[x] # Absent} } :
        f \in [AdmissionKeys -> {Absent, "", "custom-policy", "other-policy"}] }

Clusters ==
    { [plans |-> [ns \in Namespaces |-> IF ns = "ns1" THEN l ELSE << >>], rpas |-> r] :
        l \in PlanLists, r \in AdmissionSets }

MkSnapshot(name, ns, spec) == [Name |-> name, Namespace |-> ns, Spec |-> spec]

ResolveSnapshots ==
    { MkSnapshot("snap-a", "ns1", [application |-> "app-a"]),
      MkSnapshot("snap-b", "ns1", [application |-> "app-b"]),
      MkSnapshot("snap-c", "ns1", [application |-> "app-c"]),
      MkSnapshot("snap-e", "ns2", [application |-> "app-a"]),
      MkSnapshot("snap-f", "ns1", BadJSON) }

\* one call of FindEnterpriseContractPolicy; the List and the Get of the
\* client succeed or fail as listOk and getOk say
resolveCall(snapshot, listOk, getOk) ==
    /\ resolveOut' = [snapshot |-> snapshot, listOk |-> listOk, getOk |-> getOk,
                      res |-> FindEnterpriseContractPolicy(snapshot, listOk, getOk)]
    /\ UNCHANGED <<now, configMapData, auxVars, events, taskVars, cbVars, cacheVars, lockVars,
                   cluster>>

ResolveInit ==
    /\ configMapData = MkConfig("verify-conforma", "https://rekor", "", "", "", "")
    /\ cluster \in Clusters
    /\ resolveOut = None
    /\ ServiceInit
    /\ TaskInit

ResolveNext ==
    \E snapshot \in ResolveSnapshots, listOk \in BOOLEAN, getOk \in BOOLEAN :
        resolveCall(snapshot, listOk, getOk)

ResolveSpec == ResolveInit /\ [][ResolveNext]_vars

\* ------------------------------------------------------------------------
\* readConfigMap on its own: the handlers call it again and again, the
\* ConfigMap is edited between the calls, and time passes
\* ------------------------------------------------------------------------
\* the successful reads of the ConfigMap that a call can look back on
SeenReads == [fetched |-> reads.fetched, starts |-> reads.starts, latest |-> reads.latest]

\* a caller is about to call readConfigMap
readStart(t) ==
    /\ pc[t] = "idle"
    /\ pc' = [pc EXCEPT ![t] = "readConfigMap"]
    /\ UNCHANGED <<now, configMapData, events, clusterVars, lockVars, auxVars, cbVars,
                   cacheVars, ev, config, taskRun, attempt, lastErr, rbErr, wake, tmp,
                   result, calls, fnFails, fnOks, chk, resolved>>

\* readConfigMap starts: the cache lookup, its first statement
readGetCall(t) ==
    /\ readConfigMapGetStep(t)
    /\ reads' = [reads EXCEPT
                     !.starts = @ \cup {now},
                     !.call = (t :> [seen |-> SeenReads, start |-> now, store |-> FALSE])
                                  @@ @]

\* readConfigMap after a miss: the call to the cluster
readFetchCall(t, getOk) ==
    /\ readConfigMapFetchStep(t, getOk)
    /\ LET read == [at |-> now, config |-> configMapData]
       IN reads' = IF getOk
                   THEN [reads EXCEPT !.call[t].store = TRUE,
                                      !.fetched = @ \cup {read},
                                      !.latest = read]
                   ELSE [reads EXCEPT !.call[t].store = TRUE]

\* readConfigMap has returned and the caller is done with the result
readReturn(t) ==
    /\ pc[t] \in {"createTaskRun", "done"}
    /\ pc' = [pc EXCEPT ![t] = "idle"]
    /\ config' = [config EXCEPT ![t] = None]
    /\ result' = [result EXCEPT ![t] = Nil]
    /\ reads' = [reads EXCEPT !.call = [u \in DOMAIN @ \ {t} |-> @[u]]]
    /\ UNCHANGED <<now, configMapData, events, clusterVars, lockVars, timer, builds, faults, effective,
                   cbVars, cacheVars, ev, taskRun, attempt, lastErr, rbErr, wake, tmp,
                   calls, fnFails, fnOks, chk, resolved>>

\* the ConfigMap is edited in the cluster
configMapUpdate(cfg) ==
    /\ cfg # configMapData
    /\ configMapData' = cfg
    /\ UNCHANGED <<now, events, clusterVars, lockVars, auxVars, cbVars, cacheVars,
                   taskVars>>

ReadNext ==
    \/ \E t \in Tasks : readStart(t)
    \/ \E t \in Tasks : readGetCall(t)
    \/ \E t \in Tasks, getOk \in BOOLEAN : readFetchCall(t, getOk)
    \/ \E t \in Tasks : readReturn(t)
    \/ \E cfg \in CacheRecords : configMapUpdate(cfg)
    \/ Tick

ReadSpec == CacheInit /\ [][ReadNext]_vars

\* ------------------------------------------------------------------------
\* The Create calls under their deadline: the pipeline with the clock running
\* long enough for a call to reach the deadline of its context
\* ------------------------------------------------------------------------
\* the clock of the runs with deadlines stops here
MaxClock == 6

DefaultTektonTimeout == 5

\* variant: the deadline is taken from the circuit breaker timeout setting
tektonTimeoutFromBreaker(cfg) == PositiveOr(cfg.CircuitBreakerTimeout, DefaultTektonTimeout)

\* timeoutSeconds of the Create call
tektonTimeout(cfg) == PositiveOr(Setting(cfg, "TektonTimeoutSeconds"), DefaultTektonTimeout)

\* the error of a Create call whose context reached its deadline
ErrDeadlineExceeded == <<"context deadline exceeded">>

TimeoutConfigs ==
    { [TektonTimeoutSeconds |-> tmo] @@
          MkConfig("verify-conforma", "https://rekor", "2", "1", "2", "2") :
              tmo \in {"", "2", "0", "abc"} }

\* the handler whose calls are timed: the context of a call is made inside fn
\* and shared with no other handler
TimeoutTasks == {"t1"}

TimeoutEvents ==
    { MkEvent(SnapshotAPI, "Snapshot", "snap-a", "ns1", [application |-> "app-a"]) }

\* variant: the TaskRun is named again at the time of each attempt
submittedRenamed(t) == [taskRun[t] EXCEPT !.Name = taskRunName(ev[t].Name, now)]

\* the object fn hands to Create: the TaskRun the closure captured
submitted(t) == taskRun[t]

\* fn(): context.WithTimeout, then the Create call goes out; sent is the
\* object of this call, first the object of the first call of the retry
fnInvokeTimed(t) ==
    /\ fnInvokeStep(t)
    /\ timer' = (t :> [start |-> now, deadline |-> now + tektonTimeout(config[t]),
                       sent |-> submitted(t),
                       first |-> IF attempt[t] = 1 THEN submitted(t)
                                                  ELSE timer[t].first])
                    @@ timer

\* the Create call returns before the deadline of its context
fnReturnTimed(t, ok) ==
    /\ fnReturnStep(t, ok)
    /\ now <= timer[t].deadline
    /\ UNCHANGED <<timer, faults>>

\* the context reaches its deadline with the call in flight: Create returns
\* the error of the context
fnDeadline(t) ==
    /\ pc[t] = "inflight"
    /\ now >= timer[t].deadline
    /\ fnFails' = [fnFails EXCEPT ![t] = @ + 1]
    /\ lastErr' = [lastErr EXCEPT ![t] = ErrDeadlineExceeded]
    /\ pc' = [pc EXCEPT ![t] = "recordFailure"]
    /\ UNCHANGED <<now, configMapData, clusterVars, lockVars, auxVars, resolved,
                   events, ev, config, taskRun, attempt, rbErr, wake,
                   tmp, result, calls, fnOks, chk, cbVars, cacheVars>>

\* a second passes; a call in flight does not outlive its deadline
tickTimed ==
    /\ now < MaxClock
    /\ \A t \in TimeoutTasks : pc[t] = "inflight" => now < timer[t].deadline
    /\ now' = now + 1
    /\ UNCHANGED <<configMapData, clusterVars, lockVars, auxVars, events, taskVars, cbVars,
                   cacheVars>>

TimeoutInit ==
    /\ configMapData \in TimeoutConfigs
    /\ ClusterInit
    /\ ServiceInit
    /\ TaskInit

TimeoutNext ==
    \/ \E t \in TimeoutTasks, e \in TimeoutEvents : handleCloudEvent(t, e)
    \/ \E t \in TimeoutTasks : readConfigMapGet(t)
    \/ \E t \in TimeoutTasks : readConfigMapFetch(t, TRUE)
    \/ \E t \in TimeoutTasks : processSnapshotCreate(t, TRUE, TRUE)
    \/ \E t \in TimeoutTasks : retryCheck(t)
    \/ \E t \in TimeoutTasks : fnInvokeTimed(t)
    \/ \E t \in TimeoutTasks, ok \in BOOLEAN : fnReturnTimed(t, ok)
    \/ \E t \in TimeoutTasks : fnDeadline(t)
    \/ \E t \in TimeoutTasks : recordFailureLock(t)
    \/ \E t \in TimeoutTasks : recordFailureBody(t)
    \/ \E t \in TimeoutTasks : sleepDone(t)
    \/ \E t \in TimeoutTasks : recordSuccess(t)
    \/ \E t \in TimeoutTasks : processSnapshotFinish(t)
    \/ \E t \in TimeoutTasks : handlerExit(t)
    \/ tickTimed

TimeoutSpec == TimeoutInit /\ [][TimeoutNext]_vars

\* ------------------------------------------------------------------------
\* createTaskRun on its own: any sequence of calls, with any of the records
\* and Snapshots below, with time passing between the calls
\* ------------------------------------------------------------------------
\* the optional keys of the ConfigMap, set or left out
MkOptional(cfg, key, ignoreRekor, strict, workers, debug) ==
    [PublicKey |-> key, IgnoreRekor |-> ignoreRekor, Strict |-> strict,
     Workers |-> workers, Debug |-> debug] @@ cfg

BuildConfigs ==
    LET full == MkConfig("verify-conforma", "https://rekor", "", "", "", "")
    IN { MkOptional(full, "", "", "", "", ""),
         MkOptional(full, "k8s://ns/key", "false", "false", "4", "false"),
         MkOptional(full, "", "false", "", "0", "true"),
         MkOptional(MkConfig("verify-conforma", "", "", "", "", ""), "", "", "", "", "") }

\* Snapshots of which one name is the start of the other, and one whose
\* application has no ReleasePlan
BuildSnapshots ==
    { MkSnapshot("snap-a", "ns1", [application |-> "app-a"]),
      MkSnapshot("snap-a-1", "ns1", [application |-> "app-a"]),
      MkSnapshot("snap-d", "ns1", [application |-> "app-d"]) }

\* the history of the calls: the call before the last one, and the last one
LastTwo(seq, call) == IF seq = << >> THEN <<call>> ELSE <<seq[Len(seq)], call>>

\* one call of createTaskRun
buildCall(snapshot, cfg, listOk, getOk) ==
    /\ LET built == createTaskRun(snapshot, cfg, configNamespace, listOk, getOk)
       IN builds' = LastTwo(builds, [snapshot |-> snapshot.Name, cfg |-> cfg,
                                     at |-> now, resolved |-> built.found,
                                     taskRun |-> built.taskRun])
    /\ UNCHANGED <<now, configMapData, events, taskVars, cbVars, cacheVars, lockVars,
                   clusterVars, timer, reads, faults, effective>>

BuildInit ==
    /\ configMapData \in BuildConfigs
    /\ ClusterInit
    /\ ServiceInit
    /\ TaskInit

BuildNext ==
    \/ \E snapshot \in BuildSnapshots, listOk \in BOOLEAN, getOk \in BOOLEAN :
          buildCall(snapshot, configMapData, listOk, getOk)
    \/ \E cfg \in BuildConfigs : configMapUpdate(cfg)
    \/ Tick

BuildSpec == BuildInit /\ [][BuildNext]_vars

\* ------------------------------------------------------------------------
\* The service running on: events keep arriving and the clock has no end.
\* Time is kept relative to a window of MaxTime seconds that slides with the
\* clock; the settings of LiveConfigs are not longer than the window.
\* ------------------------------------------------------------------------
\* Create calls that fail before Tekton answers every call
MaxFaults == 2

\* settings of retryWithBackoff callers: two attempts or one, a breaker that
\* opens at the first failure, a circuit timeout of one second
ExecuteConfigs ==
    { MkConfig("verify-conforma", "https://rekor", "2", "1", "1", "1"),
      MkConfig("verify-conforma", "https://rekor", "1", "1", "1", "1") }

LiveConfigs ==
    { MkConfig("verify-conforma", "https://rekor", "2", "1", "1", "1"),
      MkConfig("verify-conforma", "https://rekor", "", "", "2", "2"),
      MkConfig("verify-conforma", "https://rekor", "1", "1", "1", "2"),
      MkConfig("", "https://rekor", "2", "1", "1", "1") }

LiveEvents ==
    { MkEvent(SnapshotAPI, "Snapshot", "snap-a", "ns1", [application |-> "app-a"]),
      MkEvent(SnapshotAPI, "Snapshot", "snap-d", "ns1", [application |-> "app-d"]),
      MkEvent(SnapshotAPI, "Pod", "pod-1", "ns1", [application |-> "app-a"]),
      BadEventData }

\* an event is delivered; there is no last event
liveEvent(t, e) == handleCloudEventStep(t, e) /\ UNCHANGED events

\* fn() returns; Create fails MaxFaults times at most
liveFnReturn(t, ok) ==
    /\ ok \/ faults < MaxFaults
    /\ fnReturnStep(t, ok)
    /\ faults' = IF ok THEN faults ELSE faults + 1
    /\ UNCHANGED timer

\* a time stamp after one more second: one second older in the window, the
\* zero time once it is older than the window
Older(stamp) == IF stamp <= 0 THEN ZeroTime ELSE stamp - 1

\* a second passes; at the end of the window the window moves on
liveTick ==
    /\ IF now < MaxTime
       THEN /\ now' = now + 1
            /\ UNCHANGED <<cb, cache, wake>>
       ELSE /\ UNCHANGED now
            /\ cb' = [cb EXCEPT !.lastFailure = Older(@)]
            /\ cache' = [k \in CacheKeys |->
                            IF cache[k] = None THEN None
                            ELSE [cache[k] EXCEPT !.timestamp = Older(@)]]
            /\ wake' = [t \in Tasks |-> IF wake[t] = 0 THEN 0 ELSE wake[t] - 1]
    /\ UNCHANGED <<configMapData, clusterVars, lockVars, auxVars, events,
                   pc, ev, config, taskRun, attempt, lastErr, rbErr, tmp, result,
                   calls, fnFails, fnOks, chk, resolved,
                   cbMu, recorded, anySuccess, lastSet, lastOp>>

\* the steps of the handler t after the delivery of its event
handlerStep(t) ==
    \/ readConfigMapGet(t)
    \/ \E getOk \in BOOLEAN : readConfigMapFetch(t, getOk)
    \/ \E listOk \in BOOLEAN, getOk \in BOOLEAN : processSnapshotCreate(t, listOk, getOk)
    \/ retryCheck(t)
    \/ fnInvoke(t)
    \/ \E ok \in BOOLEAN : liveFnReturn(t, ok)
    \/ recordFailureLock(t)
    \/ recordFailureBody(t)
    \/ sleepDone(t)
    \/ recordSuccess(t)
    \/ processSnapshotFinish(t)
    \/ handlerExit(t)

\* a caller enters retryWithBackoff with the settings of the ConfigMap
executeStart(t) ==
    /\ pc[t] = "idle"
    /\ config' = [config EXCEPT ![t] = configMapData]
    /\ pc' = [pc EXCEPT ![t] = "checkCircuitBreaker"]
    /\ UNCHANGED <<now, configMapData, clusterVars, lockVars, auxVars, resolved,
                   events, ev, taskRun, attempt, lastErr, rbErr, wake, tmp,
                   result, calls, fnFails, fnOks, chk, cbVars, cacheVars>>

\* retryWithBackoff has returned to its caller; the goroutine is free again
executeReturn(t) ==
    /\ pc[t] = "returned"
    /\ pc' = [pc EXCEPT ![t] = "idle"]
    /\ config' = [config EXCEPT ![t] = None]
    /\ attempt' = [attempt EXCEPT ![t] = 0]
    /\ lastErr' = [lastErr EXCEPT ![t] = Nil]
    /\ rbErr' = [rbErr EXCEPT ![t] = Nil]
    /\ calls' = [calls EXCEPT ![t] = 0]
    /\ fnFails' = [fnFails EXCEPT ![t] = 0]
    /\ fnOks' = [fnOks EXCEPT ![t] = 0]
    /\ chk' = [chk EXCEPT ![t] = NoCheck]
    /\ UNCHANGED <<now, configMapData, clusterVars, lockVars, auxVars, resolved,
                   events, ev, taskRun, wake, tmp, result, cbVars, cacheVars>>

\* the steps of one retryWithBackoff call
executeStep(t) ==
    \/ retryCheck(t)
    \/ fnInvoke(t)
    \/ \E ok \in BOOLEAN : liveFnReturn(t, ok)
    \/ recordFailureLock(t)
    \/ recordFailureBody(t)
    \/ sleepDone(t)
    \/ recordSuccess(t)
    \/ executeReturn(t)

\* retryWithBackoff and the breaker, called from two goroutines without end
ExecuteNext ==
    \/ \E t \in Tasks : executeStart(t)
    \/ \E t \in Tasks : executeStep(t)
    \/ liveTick

\* every goroutine that can run gets to run, and the clock goes on
ExecuteFairness ==
    /\ \A t \in Tasks : WF_vars(executeStep(t))
    /\ WF_vars(liveTick)

ExecuteInit ==
    /\ configMapData \in ExecuteConfigs
    /\ ClusterInit
    /\ ServiceInit
    /\ TaskInit

ExecuteSpec == ExecuteInit /\ [][ExecuteNext]_vars /\ ExecuteFairness

\* the handler of one event after the other, in one goroutine
LiveTasks == {"t1"}

LiveInit ==
    /\ configMapData \in LiveConfigs
    /\ ClusterInit
    /\ ServiceInit
    /\ TaskInit

LiveNext ==
    \/ \E t \in LiveTasks, e \in LiveEvents : liveEvent(t, e)
    \/ \E t \in LiveTasks : handlerStep(t)
    \/ liveTick

LiveFairness ==
    /\ \A t \in LiveTasks : WF_vars(handlerStep(t))
    /\ WF_vars(liveTick)

LiveSpec == LiveInit /\ [][LiveNext]_vars /\ LiveFairness

\* ------------------------------------------------------------------------
\* The settings on their own: every ConfigMap of SettingConfigs, read the way
\* retryWithBackoff, the breaker and the Create closure read it
\* ------------------------------------------------------------------------
\* time.Duration is a signed integer count of fixed units and time.Second a
\* number of these units.  The arithmetic is kept and the sizes are scaled
\* down: a Duration has DurationBits bits where Go has 64, and a second is
\* Second units where Go has 10^9, so the largest whole number of seconds a
\* Duration holds is 31 here and 9223372036 in Go.  In both, every default
\* fits and int holds numbers of seconds that do not fit.
DurationBits == 8
Second == 4

\* two's complement: the value of n in a Duration
wrapDuration(n) ==
    LET half == 2 ^ (DurationBits - 1)
    IN ((n + half) % (2 * half)) - half

\* time.Duration(n) * time.Second
seconds(n) == wrapDuration(n * Second)

\* empty, zero, negative, not a number, a small number, and a number of
\* seconds that fits int and not Duration
SettingStrings == {"", "0", "-1", "abc", "2", "40"}

SettingConfigs ==
    { [TektonTimeoutSeconds |-> call] @@
          MkConfig("verify-conforma", "https://rekor", attempts, delay, thr, tmo) :
              attempts \in SettingStrings, delay \in SettingStrings,
              thr \in SettingStrings, tmo \in SettingStrings,
              call \in SettingStrings }

\* the values the code works with, for the settings of the ConfigMap
readSettings ==
    /\ effective = None
    /\ effective' =
          [attempts |-> maxAttempts(configMapData),
           delay |-> seconds(retryDelay(configMapData)),
           threshold |-> threshold(configMapData),
           circuitTimeout |-> seconds(timeoutSeconds(configMapData)),
           callTimeout |-> seconds(tektonTimeout(configMapData))]
    /\ UNCHANGED <<now, configMapData, events, taskVars, cbVars, cacheVars, lockVars,
                   clusterVars, timer, reads, builds, faults>>

SettingsInit ==
    /\ configMapData \in SettingConfigs
    /\ ClusterInit
    /\ ServiceInit
    /\ TaskInit

SettingsNext == readSettings

SettingsSpec == SettingsInit /\ [][SettingsNext]_vars

\* ========================================================================
\* Properties
\* ========================================================================
\* the breaker let the call of task t through, going by what it read:
\* it was closed, or the timeout had passed since the last failure
Admitted(t) == chk[t].done /\ (chk[t].open => chk[t].elapsed)

\* retryWithBackoff of task t has returned
Returned(t) == pc[t] \in {"returned", "done"} /\ chk[t].done

\* the Snapshot of task t has an application and no ReleasePlan of its
\* namespace names it
NoMatchingPlan(t) ==
    /\ ev[t].Spec # BadJSON
    /\ Len(matchingPlans(ev[t].Spec.application, ev[t].Namespace)) = 0

\* C1: an accepted Snapshot whose application has no matching ReleasePlan is
\* processed with success and without a Create call, whatever the
\* configuration record that was read holds.
C1_NoPlanIsSuccessWithoutJob ==
    \A t \in Tasks :
        (pc[t] = "done" /\ Accepted(ev[t]) /\ config[t] # None /\ NoMatchingPlan(t))
            => (result[t] = Nil /\ calls[t] = 0)

\* C2: a call that finds the breaker open before the circuit timeout has
\* passed since the last failure returns the circuit-open error and never
\* invokes fn.
C2_OpenBreakerFailsFast ==
    \A t \in Tasks :
        (chk[t].done /\ chk[t].open /\ ~chk[t].elapsed)
            => (Returned(t) /\ rbErr[t] = ErrCircuitOpen /\ calls[t] = 0)

C2_Witness ==
    \E t \in Tasks :
        /\ pc[t] = "done" /\ chk[t].done /\ chk[t].open /\ ~chk[t].elapsed
        /\ result[t] = Wrap("failed to create taskrun in cluster after retries",
                            ErrCircuitOpen)

\* C3: while fn has always failed and threshold failures are recorded, a call
\* that starts before the circuit timeout has passed is rejected without
\* invoking fn, and a call that starts after it is let through to fn.
C3_TrippedBlocksUntilTimeout ==
    \A t \in Tasks :
        (chk[t].done /\ chk[t].tripped)
            => IF chk[t].elapsed
               THEN /\ rbErr[t] # ErrCircuitOpen
                    /\ pc[t] = "call" \/ calls[t] >= 1
               ELSE /\ Returned(t)
                    /\ rbErr[t] = ErrCircuitOpen
                    /\ calls[t] = 0

C3_Witness ==
    \E t \in Tasks :
        /\ chk[t].done /\ chk[t].tripped /\ chk[t].elapsed
        /\ pc[t] = "inflight" /\ calls[t] = 1
        /\ ~anySuccess /\ cb.isOpen

\* C4: an admitted call whose fn fails k < maxAttempts times and then succeeds
\* returns nil after exactly k+1 invocations, also when k reaches the
\* threshold of the breaker.
C4_SuccessAfterKFailures ==
    \A t \in Tasks :
        /\ (Returned(t) /\ Admitted(t) /\ fnFails[t] < maxAttempts(config[t]))
              => (rbErr[t] = Nil /\ fnOks[t] = 1 /\ calls[t] = fnFails[t] + 1)
        /\ fnOks[t] >= 1
              => (fnOks[t] = 1 /\ calls[t] = fnFails[t] + 1
                  /\ pc[t] \in {"recordSuccess", "returned", "done"})

C4_Witness ==
    \E t \in Tasks :
        /\ Returned(t) /\ Admitted(t) /\ rbErr[t] = Nil
        /\ fnFails[t] >= 1 /\ fnFails[t] >= threshold(config[t])
        /\ calls[t] = fnFails[t] + 1

\* C5: an admitted call whose fn fails every time invokes fn exactly
\* maxAttempts times (3 unless configured) and returns the error of the last
\* invocation.
C5_ExhaustedReturnsLastError ==
    \A t \in Tasks :
        (Returned(t) /\ Admitted(t) /\ fnOks[t] = 0)
            => LET n == PositiveOr(config[t].TektonRetryAttempts, 3)
               IN calls[t] = n /\ fnFails[t] = n /\ rbErr[t] = CreateErr(n)

C5_Witness ==
    \E t \in Tasks :
        /\ Returned(t) /\ Admitted(t) /\ fnOks[t] = 0
        /\ config[t].TektonRetryAttempts = ""
        /\ calls[t] = 3 /\ rbErr[t] = CreateErr(3)

\* C6: the step that records a success leaves the failure count 0 and the
\* breaker closed, whatever they were before.
C6_SuccessResets ==
    [][\A t \in Tasks :
          (pc[t] = "recordSuccess" /\ pc'[t] = "returned")
              => (cb'.failures = 0 /\ ~cb'.isOpen)]_vars

\* a success recorded by a probe of the open breaker, the other task having
\* recorded a failure after the probe was let through (lastFailure is later
\* than any the probe's check can have read)
C6_Witness ==
    \E t \in Tasks, u \in Tasks :
        /\ t # u
        /\ pc[t] = "returned" /\ rbErr[t] = Nil /\ fnOks[t] = 1
        /\ chk[t].open /\ chk[t].elapsed
        /\ fnOks[u] = 0 /\ fnFails[u] >= 1
        /\ cb.lastFailure = now
        /\ cb.failures = 0 /\ ~cb.isOpen

\* C7: with the threshold T of the one ConfigMap, the breaker is open exactly
\* when the failure count is at least T.
C7_OpenIffThreshold ==
    cb.isOpen <=> cb.failures >= threshold(configMapData)

C7_Witness ==
    /\ cb.isOpen
    /\ cb.failures = threshold(configMapData)
    /\ threshold(configMapData) >= 2

\* C8: no call makes its first invocation of fn while the breaker is open and
\* the circuit timeout has not passed since the last failure.
C8_AdmissionAtomicWithFirstCall ==
    [][\A t \in Tasks :
          (pc[t] = "call" /\ pc'[t] = "inflight" /\ attempt[t] = 1)
              => ~(cb.isOpen /\ Since(cb.lastFailure) <= timeoutSeconds(config[t]))]_vars

\* C9: the failure counter equals the number of failures recorded since the
\* last recorded success.
C9_NoLostOrDoubleCount ==
    cb.failures = recorded

C9_Witness ==
    /\ \A t \in Tasks : fnFails[t] >= 1 /\ pc[t] \in {"sleep", "returned"}
    /\ cb.failures = 2
    /\ recorded = 2

\* C10: get(N) returns the record of the latest set(N, .) when no clear came
\* after that set and less than the TTL has passed since it, and a miss in
\* every other case.
C10_GetReturnsLatestFreshSet ==
    (lastOp.op = "get" /\ lastOp.at = now)
        => LET s == lastSet[lastOp.key]
               hit == s # None /\ now - s.at < CacheTTL
           IN /\ lastOp.found <=> hit
              /\ lastOp.found => lastOp.config = s.config
              /\ ~lastOp.found => lastOp.config = None

\* a hit on one key after a later set on another key and a set of another
\* record on the same key
C10_Witness ==
    /\ lastOp.op = "get" /\ lastOp.found /\ lastOp.at = now
    /\ \E k \in CacheKeys :
          /\ k # lastOp.key
          /\ lastSet[k] # None
          /\ lastSet[k].at > lastSet[lastOp.key].at
          /\ lastSet[k].config # lastOp.config

\* ------------------------------------------------------------------------
\* Properties of the cache
\* ------------------------------------------------------------------------
\* C11: a get that returns a miss, for an absent entry or for an expired one,
\* leaves the cache map as it was.
C11_MissLeavesMapUnchanged ==
    [][(lastOp' # lastOp /\ lastOp'.op = "get" /\ ~lastOp'.found)
          => cache' = cache]_vars

\* C12: the cache map changes only in a step of the task that holds the
\* exclusive lock, never in a step of a task that holds the read lock, and
\* no map access of one get runs unordered with a map write of another.
C12_MapWrittenUnderExclusiveLock ==
    [][/\ cache' # cache => cacheMu.writer # NoTask
       /\ ~mapFault']_vars

\* ------------------------------------------------------------------------
\* Properties of the lookup
\* ------------------------------------------------------------------------
\* the latest lookup got its listing: the Snapshot spec was decoded and the
\* List call succeeded
Listed == resolveOut # None /\ resolveOut.snapshot.Spec # BadJSON /\ resolveOut.listOk

\* the listing of the namespace of the latest lookup
Listing == cluster.plans[resolveOut.snapshot.Namespace]

\* positions in the listing of the plans for the application of the lookup
MatchIndexes ==
    {i \in 1..Len(Listing) : Listing[i].Application = resolveOut.snapshot.Spec.application}

\* the first plan of the listing that is for the application
FirstMatch == Listing[CHOOSE i \in MatchIndexes : \A j \in MatchIndexes : i <= j]

\* the ReleasePlanAdmissions of the cluster under the key the plan points to
AdmissionsOf(plan) ==
    {a \in cluster.rpas : a.Namespace = plan.Target /\ a.Name = plan.RpaName}

\* the lookup made no Get call
NoGetCall == \A i \in 1..Len(resolveOut.res.api) : resolveOut.res.api[i].verb # "Get"

\* C13: when a ReleasePlan for the application is listed in the Snapshot's
\* namespace and the ReleasePlanAdmission it points to is fetched, the lookup
\* returns "<ns>/<policy>": ns is the namespace of the admission, which is the
\* target of the plan, and policy is the policy of the admission, or
\* registry-standard when the admission has none.
C13_ResolvesAdmissionPolicy ==
    (Listed /\ resolveOut.getOk /\ MatchIndexes # {})
        => \A a \in AdmissionsOf(FirstMatch) :
              /\ resolveOut.res.err = Nil
              /\ a.Namespace = FirstMatch.Target
              /\ resolveOut.res.ecp =
                     a.Namespace \o "/" \o
                         (IF a.Policy = "" THEN "registry-standard" ELSE a.Policy)

\* an admission without a policy in the second namespace, found through the
\* second plan of the listing
C13_Witness ==
    /\ Listed /\ resolveOut.getOk
    /\ Len(Listing) = 2
    /\ MatchIndexes = {2}
    /\ \E a \in AdmissionsOf(FirstMatch) : a.Policy = ""
    /\ resolveOut.res.ecp = "other-ns/registry-standard"

\* C14: with no ReleasePlan in the namespace the lookup fails with the
\* no-plans-in-namespace error, with plans but none for the application it
\* fails with the other, no-plan-for-application error; neither case makes a
\* Get call for a ReleasePlanAdmission.
C14_NoPlanErrors ==
    Listed =>
        /\ Len(Listing) = 0
              => /\ resolveOut.res.err =
                        <<"no release plans found in namespace " \o
                              resolveOut.snapshot.Namespace>>
                 /\ NoGetCall
        /\ (Len(Listing) > 0 /\ MatchIndexes = {})
              => /\ resolveOut.res.err =
                        <<"no release plans found for application name: " \o
                              resolveOut.snapshot.Spec.application>>
                 /\ NoGetCall

C14_Witness ==
    /\ Listed /\ resolveOut.getOk
    /\ Len(Listing) = 2 /\ MatchIndexes = {}
    /\ \A i \in 1..2 : AdmissionsOf(Listing[i]) # {}
    /\ resolveOut.res.err = <<"no release plans found for application name: app-a">>
    /\ resolveOut.res.api = <<ListCall("ns1")>>

\* C15: when the plan for the application is found and its
\* ReleasePlanAdmission cannot be fetched, the lookup returns an error that
\* wraps the error of the Get call, and no policy; a result with the default
\* policy name comes only from a fetched admission whose policy is empty.
C15_MissingAdmissionIsAnError ==
    (Listed /\ MatchIndexes # {})
        => /\ (~resolveOut.getOk \/ AdmissionsOf(FirstMatch) = {})
                 => /\ Len(resolveOut.res.err) = 2
                    /\ resolveOut.res.err[1] =
                           "failed to get release plan admission " \o
                               FirstMatch.Target \o "/" \o FirstMatch.RpaName
                    /\ resolveOut.res.err[2] =
                           (IF resolveOut.getOk THEN "not found" ELSE "get error")
                    /\ resolveOut.res.ecp = ""
           /\ resolveOut.res.ecp = FirstMatch.Target \o "/" \o defaultEcpName
                 => /\ resolveOut.getOk
                    /\ \E a \in AdmissionsOf(FirstMatch) : a.Policy = ""

\* the admission of the plan is missing while other admissions with and
\* without a policy exist
C15_Witness ==
    /\ Listed /\ resolveOut.getOk
    /\ MatchIndexes # {}
    /\ AdmissionsOf(FirstMatch) = {}
    /\ \E a \in cluster.rpas : a.Policy = ""
    /\ resolveOut.res.err =
           <<"failed to get release plan admission target-ns/rpa-2", "not found">>

\* C16: when several plans of the listing are for the application, the lookup
\* goes by the first of them in listing order: its one Get call is for the
\* admission of that plan, and the result is the policy of that admission or
\* the error of that Get, whatever the later matching plans point to.
C16_FirstMatchDecides ==
    (Listed /\ Cardinality(MatchIndexes) >= 2)
        => /\ resolveOut.res.api =
                  <<ListCall(resolveOut.snapshot.Namespace),
                    GetCall(FirstMatch.Target, FirstMatch.RpaName)>>
           /\ IF resolveOut.getOk /\ AdmissionsOf(FirstMatch) # {}
              THEN /\ resolveOut.res.err = Nil
                   /\ \E a \in AdmissionsOf(FirstMatch) :
                         resolveOut.res.ecp = a.Namespace \o "/" \o ecpName(a)
              ELSE /\ resolveOut.res.err # Nil
                   /\ resolveOut.res.ecp = ""

\* two plans for the application whose admissions exist in different
\* namespaces with different policies: the first is the one used
C16_Witness ==
    /\ Listed /\ resolveOut.getOk
    /\ MatchIndexes = {1, 2}
    /\ Listing[1].Target = "other-ns" /\ Listing[2].Target = "target-ns"
    /\ \E a \in AdmissionsOf(Listing[2]) : a.Policy = "custom-policy"
    /\ resolveOut.res.ecp = "other-ns/other-policy"

\* ------------------------------------------------------------------------
\* Properties of the event pipeline
\* ------------------------------------------------------------------------
\* C17: an event whose kind is not Snapshot or whose apiVersion is not
\* appstudio.redhat.com/v1alpha1 is handled in one step that returns nil:
\* no configuration is read, findEcp is not called, no TaskRun is built or
\* created, and the cache and the breaker stay as they were.
C17_OtherKindsAreDropped ==
    [][\A t \in Tasks :
          (/\ pc[t] = "idle" /\ pc'[t] # "idle"
           /\ ev'[t] # BadEventData
           /\ (ev'[t].Kind # "Snapshot"
                  \/ ev'[t].APIVersion # "appstudio.redhat.com/v1alpha1"))
              => /\ pc'[t] = "done" /\ result'[t] = Nil
                 /\ config'[t] = None /\ resolved'[t] = None
                 /\ taskRun'[t] = None /\ calls'[t] = 0
                 /\ cache' = cache /\ cb' = cb]_vars

\* a Snapshot event of another apiVersion was dropped while the cache holds a
\* record and the breaker has counted failures
C17_Witness ==
    \E t \in Tasks :
        /\ pc[t] = "done" /\ result[t] = Nil
        /\ ev[t] # None /\ ev[t] # BadEventData
        /\ ev[t].Kind = "Snapshot" /\ ev[t].APIVersion = "v1"
        /\ config[t] = None /\ calls[t] = 0
        /\ cache[configNamespace] # None
        /\ cb.failures >= 1

\* C18: the configuration of an accepted Snapshot is cached under the
\* Snapshot's own namespace: the read that follows a miss stores the record
\* it returns to the handler under that key.
C18_ConfigKeyedBySnapshotNamespace ==
    [][\A t \in Tasks :
          (pc[t] = "fetchConfigMap" /\ pc'[t] = "createTaskRun")
              => cache'[ev[t].Namespace] = [config |-> config'[t], timestamp |-> now]]_vars

\* C19: every TaskRun built for a Snapshot has the Snapshot's namespace, and
\* the Create call is made in that namespace.
C19_JobInSnapshotNamespace ==
    \A t \in Tasks :
        taskRun[t] # None
            => /\ taskRun[t].Namespace = ev[t].Namespace
               /\ createNamespace(t) = ev[t].Namespace
               /\ taskRun[t].Namespace = createNamespace(t)

\* C20: with an empty task name createTaskRun fails with the TASK_NAME error,
\* with findEcp succeeded and an empty upload URL it fails with the upload
\* URL error; the handler returns that error, and no Create call is ever made
\* with such a configuration.
C20_IncompleteConfigFailsBuild ==
    \A t \in Tasks :
        /\ (pc[t] = "done" /\ config[t] # None /\ config[t].TaskName = "")
              => /\ result[t] = <<"failed to create taskrun",
                                  "TASK_NAME is required but not set in configmap">>
                 /\ taskRun[t] = None /\ calls[t] = 0
        /\ (/\ pc[t] = "done"
            /\ resolved[t] # None /\ resolved[t].err = Nil
            /\ config[t].VsaUploadUrl = "")
              => /\ result[t] = <<"failed to create taskrun", "VSA upload URL is not set">>
                 /\ taskRun[t] = None /\ calls[t] = 0
        /\ (taskRun[t] # None \/ calls[t] > 0)
              => (config[t].TaskName # "" /\ config[t].VsaUploadUrl # "")

C20_Witness ==
    \E t \in Tasks :
        /\ pc[t] = "done"
        /\ resolved[t] # None /\ resolved[t].err = Nil
        /\ resolved[t].ecp = "target-ns/custom-policy"
        /\ config[t].TaskName # "" /\ config[t].VsaUploadUrl = ""
        /\ result[t] = <<"failed to create taskrun", "VSA upload URL is not set">>
        /\ calls[t] = 0

\* the error processSnapshot returns when the ConfigMap cannot be read
ReadError == <<"failed to read configmap", "failed to get configmap", "get error">>

\* C21: a failed read of the ConfigMap ends the handler in that step with an
\* error that wraps the cause; findEcp is not called, no TaskRun is built or
\* created, and the cache is left as the lookup left it, without an entry.
C21_FailedReadStoresNothing ==
    [][\A t \in Tasks :
          (pc[t] = "fetchConfigMap" /\ pc'[t] # "fetchConfigMap" /\ config'[t] = None)
              => /\ pc'[t] = "done"
                 /\ result'[t] = ReadError
                 /\ resolved'[t] = None /\ taskRun'[t] = None /\ calls'[t] = 0
                 /\ cache' = cache]_vars

\* a handler failed on the read, the cache has no entry, and the handler of
\* the other event is reading the ConfigMap from the cluster
C21_Witness ==
    \E t \in Tasks, u \in Tasks :
        /\ pc[t] = "done" /\ result[t] = ReadError
        /\ config[t] = None /\ resolved[t] = None /\ calls[t] = 0
        /\ cache[configNamespace] = None
        /\ pc[u] = "fetchConfigMap"

\* C23: for an event whose TaskRun was built, the handler returns the error
\* of retryWithBackoff, wrapped, whenever there is one (all attempts failed,
\* or the breaker rejected the call), and nil only after exactly one Create
\* call that succeeded, which is the last call made for the event.
C23_SubmissionOutcome ==
    \A t \in Tasks :
        taskRun[t] # None
            => /\ pc[t] = "done"
                     => /\ rbErr[t] # Nil
                              => result[t] =
                                     <<"failed to create taskrun in cluster after retries">>
                                         \o rbErr[t]
                        /\ (chk[t].open /\ ~chk[t].elapsed) => result[t] # Nil
                        /\ fnOks[t] = 0 => result[t] # Nil
                        /\ result[t] = Nil => (fnOks[t] = 1 /\ calls[t] = fnFails[t] + 1)
               /\ fnOks[t] >= 1
                     => /\ fnOks[t] = 1 /\ calls[t] = fnFails[t] + 1
                        /\ pc[t] \in {"recordSuccess", "returned", "done"}

\* both outcomes at once: one handler returned nil after a failed and a
\* successful Create call, the other was rejected by the breaker
C23_Witness ==
    \E t \in Tasks, u \in Tasks :
        /\ pc[t] = "done" /\ taskRun[t] # None /\ result[t] = Nil
        /\ fnFails[t] >= 1 /\ fnOks[t] = 1
        /\ pc[u] = "done" /\ taskRun[u] # None /\ calls[u] = 0
        /\ result[u] # Nil

\* C24: the step in which retryWithBackoff is rejected by the open breaker
\* returns the circuit-open error at once: fn is not invoked, no attempt is
\* counted, no sleep is started, no time passes, and failures, lastFailure
\* and isOpen are the same after it as before.
C24_RejectionChangesNothing ==
    [][\A t \in Tasks :
          (pc[t] = "checkCircuitBreaker" /\ pc'[t] = "returned")
              => /\ rbErr'[t] = ErrCircuitOpen
                 /\ calls'[t] = 0 /\ attempt'[t] = 0 /\ wake'[t] = 0
                 /\ now' = now
                 /\ cb'.failures = cb.failures
                 /\ cb'.lastFailure = cb.lastFailure
                 /\ cb'.isOpen = cb.isOpen]_vars

C24_Witness ==
    \E t \in Tasks :
        /\ pc[t] = "returned" /\ rbErr[t] = ErrCircuitOpen
        /\ calls[t] = 0 /\ attempt[t] = 0 /\ wake[t] = 0
        /\ cb.isOpen /\ cb.failures >= 2 /\ cb.lastFailure = now

\* C26: a task that sleeps between attempts or has fn in flight holds neither
\* the lock of the breaker nor the lock of the cache; the breaker lock is
\* held only inside recordFailure.
C26_NoLockHeldWhileWaiting ==
    \A t \in Tasks :
        /\ pc[t] \in {"sleep", "inflight"}
              => (cbMu # t /\ cacheMu.writer # t /\ t \notin cacheMu.readers)
        /\ cbMu = t <=> pc[t] = "recordFailureBody"

\* while t is still asleep after its failed attempt, u was admitted by a check
\* that saw the failure of t recorded, called Create and recorded its success
C26_Witness ==
    \E t \in Tasks, u \in Tasks :
        /\ t # u
        /\ pc[t] = "sleep" /\ now < wake[t] /\ fnFails[t] = 1
        /\ pc[u] = "returned" /\ rbErr[u] = Nil /\ fnOks[u] = 1 /\ fnFails[u] = 0
        /\ chk[u].done /\ ~chk[u].open /\ ~chk[u].elapsed
        /\ cb.failures = 0

\* C29: a Snapshot whose spec does not decode as JSON makes createTaskRun
\* return an error and no TaskRun: the handler returns a failed-to-create
\* error, findEcp is not called and no Create call is made.
C29_InvalidSpecFailsBuild ==
    \A t \in Tasks :
        (ev[t] # None /\ Accepted(ev[t]) /\ ev[t].Spec = BadJSON)
            => /\ taskRun[t] = None /\ calls[t] = 0 /\ resolved[t] = None
               /\ pc[t] \in {"readConfigMap", "fetchConfigMap", "createTaskRun", "done"}
               /\ (pc[t] = "done" /\ config[t] # None)
                     => /\ Len(result[t]) >= 2
                        /\ result[t][1] = "failed to create taskrun"

C29_Witness ==
    \E t \in Tasks :
        /\ pc[t] = "done" /\ ev[t] # None /\ Accepted(ev[t]) /\ ev[t].Spec = BadJSON
        /\ config[t] # None /\ config[t].TaskName # ""
        /\ result[t] = <<"failed to create taskrun",
                         "failed to unmarshal snapshot spec to extract components",
                         "invalid JSON">>
        /\ calls[t] = 0

\* findEcp was called for the event of task t and returned an error
LookupFailed(t) == resolved[t] # None /\ resolved[t].err # Nil

ReadDone(t) == pc[t] \in {"createTaskRun", "done"}

PerCallTimeout(cfg) ==
    IF Setting(cfg, "TektonTimeoutSeconds") \in {"1", "2", "3"}
    THEN CHOOSE n \in 1..3 : ToString(n) = Setting(cfg, "TektonTimeoutSeconds")
    ELSE 5

\* C25: every Create attempt gets a deadline of its own, the per-call timeout
\* (5 s, or the positive TEKTON_TIMEOUT_SECONDS) after it goes out; an attempt
\* in flight at its deadline is ended with an error, which is one failed call
\* of the task, is recorded in the breaker as one failure, and is followed by
\* the sleep before the next attempt when attempts remain.
C25_TimedOutAttempt ==
    [][\A t \in Tasks :
          /\ (pc[t] = "call" /\ pc'[t] = "inflight")
                => /\ timer'[t].start = now
                   /\ timer'[t].deadline = now + PerCallTimeout(config[t])
          /\ pc[t] = "inflight" => now' <= timer[t].deadline
          /\ (pc[t] = "inflight" /\ pc'[t] = "inflight") => timer'[t] = timer[t]
          /\ (pc[t] = "inflight" /\ pc'[t] # "inflight" /\ now >= timer[t].deadline
                   /\ fnOks'[t] = fnOks[t])
                => /\ pc'[t] = "recordFailure"
                   /\ fnFails'[t] = fnFails[t] + 1
                   /\ lastErr'[t] # Nil
          /\ (pc[t] = "recordFailureBody" /\ pc'[t] # "recordFailureBody")
                => /\ recorded' = recorded + 1
                   /\ cb'.failures = tmp[t] + 1 /\ cb'.lastFailure = now
                   /\ IF attempt[t] < maxAttempts(config[t])
                      THEN pc'[t] = "sleep" /\ wake'[t] = now + retryDelay(config[t])
                      ELSE pc'[t] = "returned" /\ rbErr'[t] = lastErr[t]]_vars

\* the first attempt ran into the default deadline of five seconds; the second
\* attempt is in flight with a deadline five seconds after it went out
C25_Witness ==
    \E t \in Tasks :
        /\ config[t] # None
        /\ Setting(config[t], "TektonTimeoutSeconds") \in {"", "0", "abc"}
        /\ pc[t] = "inflight" /\ attempt[t] = 2 /\ calls[t] = 2 /\ fnFails[t] = 1
        /\ lastErr[t] = ErrDeadlineExceeded
        /\ timer[t].start >= 5 + retryDelay(config[t])
        /\ timer[t].deadline = timer[t].start + 5

\* the value of a parameter whose setting is value: the setting, or, when
\* there is none, the literal that stands in for it
Defaulted(value, literal) == IF value = "" THEN literal ELSE value

\* the createTaskRun calls that returned a TaskRun
Built == { i \in DOMAIN builds : builds[i].taskRun # None }

\* C27: in every TaskRun that createTaskRun returns, PUBLIC_KEY, IGNORE_REKOR,
\* STRICT and DEBUG are the settings of the record, or "true" where the
\* setting is empty, and WORKERS is the setting, or "1" where it is empty.
C27_EmptySettingsDefault ==
    \A i \in Built :
        LET cfg == builds[i].cfg
            tr == builds[i].taskRun
        IN /\ builds[i].resolved # None /\ builds[i].resolved.err = Nil
           /\ tr.PUBLIC_KEY = Defaulted(Setting(cfg, "PublicKey"), "true")
           /\ tr.IGNORE_REKOR = Defaulted(Setting(cfg, "IgnoreRekor"), "true")
           /\ tr.STRICT = Defaulted(Setting(cfg, "Strict"), "true")
           /\ tr.DEBUG = Defaulted(Setting(cfg, "Debug"), "true")
           /\ tr.WORKERS = Defaulted(Setting(cfg, "Workers"), "1")

\* a TaskRun built from a record with none of the five settings, and one
\* built from a record with all of them
C27_Witness ==
    /\ Len(builds) = 2 /\ Built = {1, 2}
    /\ LET cfg == builds[1].cfg
           tr == builds[1].taskRun
       IN /\ cfg.PublicKey = "" /\ cfg.IgnoreRekor = "" /\ cfg.Strict = ""
          /\ cfg.Debug = "" /\ cfg.Workers = ""
          /\ tr.PUBLIC_KEY = "true" /\ tr.IGNORE_REKOR = "true" /\ tr.STRICT = "true"
          /\ tr.DEBUG = "true" /\ tr.WORKERS = "1"
    /\ LET cfg == builds[2].cfg
           tr == builds[2].taskRun
       IN /\ Setting(cfg, "PublicKey") # ""
          /\ cfg.IgnoreRekor = "false" /\ cfg.Strict = "false"
          /\ cfg.Debug = "false" /\ cfg.Workers = "4"
          /\ tr.PUBLIC_KEY = Setting(cfg, "PublicKey") /\ tr.IGNORE_REKOR = "false"
          /\ tr.STRICT = "false" /\ tr.DEBUG = "false" /\ tr.WORKERS = "4"

\* C28: two TaskRuns have the same name only if they were built for the same
\* Snapshot name in the same second; TaskRuns built for different Snapshot
\* names, or in different seconds, have different names.
C28_NameCollidesOnlyInSameSecond ==
    \A i \in Built, j \in Built :
        /\ builds[i].taskRun.Name = builds[j].taskRun.Name
              => (builds[i].snapshot = builds[j].snapshot /\ builds[i].at = builds[j].at)
        /\ (builds[i].snapshot # builds[j].snapshot \/ builds[i].at # builds[j].at)
              => builds[i].taskRun.Name # builds[j].taskRun.Name

\* TaskRuns for one Snapshot built a second apart, with different names
C28_Witness ==
    /\ Len(builds) = 2 /\ Built = {1, 2}
    /\ builds[1].snapshot = "snap-a-1" /\ builds[2].snapshot = "snap-a-1"
    /\ builds[2].at = builds[1].at + 1
    /\ builds[1].taskRun.Name = "verify-conforma-snap-a-1-" \o ToString(builds[1].at)
    /\ builds[1].taskRun.Name # builds[2].taskRun.Name

\* the calls of the latest lookup with the given verb
CallsOf(verb) ==
    {i \in 1..Len(resolveOut.res.api) : resolveOut.res.api[i].verb = verb}

\* C35: a lookup makes at most one List of ReleasePlans and at most one Get of
\* a ReleasePlanAdmission; the Get comes after a List that succeeded and held
\* a plan for the application, and asks for the admission that plan points
\* to; a failed call is the last call of the lookup, and every call is a read.
C35_OneListOneGetNoWrite ==
    resolveOut # None =>
        LET api == resolveOut.res.api
        IN /\ Cardinality(CallsOf("List")) <= 1
           /\ Cardinality(CallsOf("Get")) <= 1
           /\ \A i \in 1..Len(api) : api[i].verb \in {"List", "Get"}
           /\ \A i \in CallsOf("Get") :
                 /\ i = 2 /\ api[1].verb = "List"
                 /\ Listed /\ MatchIndexes # {}
                 /\ api[i] = GetCall(FirstMatch.Target, FirstMatch.RpaName)
           /\ (resolveOut.snapshot.Spec # BadJSON /\ ~resolveOut.listOk)
                 => api = <<ListCall(resolveOut.snapshot.Namespace)>>
           /\ (CallsOf("Get") # {} /\ ~resolveOut.getOk)
                 => Len(api) = 2 /\ resolveOut.res.err # Nil

\* a lookup whose List found the plan and whose Get failed: two calls, an error
C35_Witness ==
    /\ Listed /\ MatchIndexes # {} /\ ~resolveOut.getOk
    /\ Len(resolveOut.res.api) = 2
    /\ resolveOut.res.api[2].verb = "Get"
    /\ resolveOut.res.err # Nil

\* the handler of t ends before retryWithBackoff with an error: the event
\* data, the ConfigMap read or createTaskRun (findEcp included) failed
FailsBeforeRetry(t) ==
    /\ pc[t] \in {"idle", "readConfigMap", "fetchConfigMap", "createTaskRun"}
    /\ pc'[t] = "done"
    /\ result'[t] # Nil

\* recordFailure or recordSuccess of t completes for a Create call that returned
RecordsOutcome(t) ==
    \/ pc[t] = "recordFailureBody" /\ pc'[t] \in {"sleep", "returned"} /\ fnFails[t] >= 1
    \/ pc[t] = "recordSuccess" /\ pc'[t] = "returned" /\ fnOks[t] >= 1

\* C36: a handler that ends with an error of the ConfigMap read, of
\* createTaskRun or of the policy lookup leaves failures, lastFailure and
\* isOpen as they were, and every step that changes one of the three is the
\* recordFailure or recordSuccess of a Create call that has returned.
C36_OnlyCreateOutcomesTouchBreaker ==
    [][/\ \A t \in Tasks : FailsBeforeRetry(t) => cb' = cb
       /\ cb' # cb => \E t \in Tasks : RecordsOutcome(t)]_vars

\* a handler ended on an error of createTaskRun while the breaker held a
\* recorded failure of another handler
C36_Witness ==
    \E t \in Tasks :
        /\ pc[t] = "done" /\ result[t] # Nil
        /\ config[t] # None /\ taskRun[t] = None /\ ~chk[t].done
        /\ cb.failures >= 1 /\ cb.lastFailure # ZeroTime

\* C37: every Create call of a retry hands over the TaskRun that createTaskRun
\* built before the first attempt: the object of the latest call equals the
\* object of the first call, name, namespace and parameters, it is the
\* TaskRun the handler holds, and its name carries a time not later than the
\* start of the call.
C37_SameTaskRunEveryAttempt ==
    \A t \in DOMAIN timer :
        calls[t] >= 1 =>
            /\ timer[t].sent = timer[t].first
            /\ timer[t].sent = taskRun[t]
            /\ \E built \in 0..timer[t].start :
                  timer[t].sent.Name = taskRunName(ev[t].Name, built)

\* the second attempt is in flight, started after the second in which the
\* TaskRun was built
C37_Witness ==
    \E t \in DOMAIN timer :
        /\ pc[t] = "inflight" /\ attempt[t] = 2 /\ calls[t] = 2
        /\ timer[t].sent = timer[t].first
        /\ timer[t].sent.Name # taskRunName(ev[t].Name, timer[t].start)

\* the breaker is closed and counts no failure
Closed == ~cb.isOpen /\ cb.failures = 0

\* retryWithBackoff of t is past its check and has not returned
InRetry(t) ==
    pc[t] \in {"call", "inflight", "recordFailure", "recordFailureBody", "sleep",
               "recordSuccess"}

\* t was let through an open breaker after the timeout, its Create call
\* succeeded, and recordSuccess has closed the breaker
ProbeClosed(t) ==
    /\ chk[t].done /\ chk[t].open /\ chk[t].elapsed
    /\ pc[t] = "returned" /\ rbErr[t] = Nil /\ fnOks[t] = 1
    /\ Closed

\* retryWithBackoff calls keep arriving at the breaker
CallsKeepArriving == []<>(\E t \in Tasks : pc[t] = "checkCircuitBreaker")

\* C34: when retryWithBackoff calls keep arriving and Create fails only a
\* bounded number of times, an open breaker is closed again with failures at
\* zero; and from an open breaker with no call left in its retry loop, the
\* call that closes it is one that was let through after the circuit timeout
\* and whose Create call succeeded.
C34_OpenBreakerCloses ==
    CallsKeepArriving =>
        /\ cb.isOpen ~> Closed
        /\ (cb.isOpen /\ \A t \in Tasks : ~InRetry(t))
              ~> (\E t \in Tasks : ProbeClosed(t))

\* a call let through the open breaker has closed it after both failures
\* that Create had in it were used up
C34_Witness ==
    /\ faults = MaxFaults
    /\ \E t \in Tasks : ProbeClosed(t)

\* the sleeps of the retryWithBackoff of t, the one it is in included
Delays(t) ==
    IF pc[t] = "sleep" THEN attempt[t]
    ELSE IF attempt[t] = 0 THEN 0 ELSE attempt[t] - 1

\* how the handler of t ended
Outcome(t) ==
    IF result[t] # Nil THEN "failed"
    ELSE IF fnOks[t] = 1 /\ rbErr[t] = Nil /\ chk[t].done THEN "submitted"
    ELSE IF resolved[t] # None /\ resolved[t].err # Nil THEN "skipped"
    ELSE IF ~Accepted(ev[t]) THEN "ignored"
    ELSE "none"

\* C38: every handler ends, as ignored, skipped, failed or submitted; it
\* makes at most maxAttempts Create calls and sleeps at most maxAttempts - 1
\* times, each sleep after a failed call that was not the last one, and none
\* after the call that ended the retry.
C38_HandlerTerminatesBounded ==
    /\ [](\A t \in Tasks :
            /\ config[t] # None =>
                  /\ calls[t] <= maxAttempts(config[t])
                  /\ Delays(t) <= maxAttempts(config[t]) - 1
                  /\ Delays(t) <= fnFails[t]
            /\ pc[t] \in {"returned", "done"} =>
                  Delays(t) = (IF calls[t] = 0 THEN 0 ELSE calls[t] - 1)
            /\ pc[t] = "done" => Outcome(t) # "none")
    /\ \A t \in LiveTasks : pc[t] # "idle" ~> pc[t] = "done"

\* a handler ended as failed after maxAttempts Create calls and one sleep
C38_Witness ==
    \E t \in Tasks :
        /\ pc[t] = "done" /\ Outcome(t) = "failed" /\ config[t] # None
        /\ calls[t] = maxAttempts(config[t]) /\ calls[t] = 2
        /\ Delays(t) = 1

\* C31: the breaker is read at the start of retryWithBackoff only.  A call
\* that is in its loop goes on to the next attempt after every sleep, whatever
\* the breaker has become; it returns an error only after maxAttempts Create
\* calls, and never the circuit-open error; and the recordSuccess of a Create
\* call that succeeded leaves failures at 0 and the breaker closed.
C31_LoopIgnoresBreaker ==
    [][\A t \in Tasks :
          /\ (pc[t] = "sleep" /\ pc'[t] # "sleep")
                => pc'[t] = "call" /\ attempt'[t] = attempt[t] + 1
          /\ (InRetry(t) /\ pc'[t] = "returned" /\ rbErr'[t] # Nil)
                => /\ calls[t] = maxAttempts(config[t])
                   /\ rbErr'[t] # ErrCircuitOpen
          /\ (pc[t] = "recordSuccess" /\ pc'[t] = "returned")
                => cb'.failures = 0 /\ ~cb'.isOpen]_vars

\* a call that found the breaker closed, opened it with the failure of its
\* first attempt (the threshold is 1) and closed it with its second attempt
C31_Witness ==
    \E t \in Tasks :
        /\ pc[t] = "returned" /\ chk[t].done /\ ~chk[t].open
        /\ threshold(config[t]) = 1
        /\ fnFails[t] = 1 /\ fnOks[t] = 1 /\ calls[t] = 2
        /\ rbErr[t] = Nil /\ Closed

\* t was let through an open breaker after the timeout
Probe(t) == chk[t].done /\ chk[t].open /\ chk[t].elapsed

\* the probe t has recorded neither a success nor a failure yet
PendingProbe(t) ==
    /\ Probe(t)
    /\ attempt[t] = 1
    /\ pc[t] \in {"call", "inflight", "recordFailure", "recordFailureBody", "recordSuccess"}

\* C32: after the circuit timeout one call is let through the open breaker,
\* and while that call has recorded neither a success nor a failure no other
\* call is let through: there are never two such calls at a time.
C32_OneProbeAtATime ==
    \A t \in Tasks, u \in Tasks :
        (t # u /\ PendingProbe(t)) => ~PendingProbe(u)

\* the probe t has failed an attempt and sleeps before the next one; the
\* failure was recorded when the sleep began
SleepingProbe(t) == Probe(t) /\ pc[t] = "sleep" /\ fnOks[t] = 0

\* the latest recorded failure is the one of the sleeping probe t
LatestFailureOf(t) == cb.lastFailure = wake[t] - retryDelay(config[t])

\* checkCircuitBreaker of u returns
Checks(u) == pc[u] = "checkCircuitBreaker" /\ pc'[u] # "checkCircuitBreaker"

\* checkCircuitBreaker of u blocks the operation and fn is not called
Rejects(u) ==
    /\ Checks(u)
    /\ pc'[u] = "returned" /\ rbErr'[u] = ErrCircuitOpen /\ calls'[u] = 0

\* the statement of C33 as it was claimed: a call that starts less than the
\* circuit timeout after the last recorded failure of a probe is rejected
C33_RejectedAfterProbeFailure ==
    [][\A u \in Tasks :
          (/\ Checks(u)
           /\ \E t \in Tasks \ {u} : SleepingProbe(t) /\ LatestFailureOf(t)
           /\ Since(cb.lastFailure) < timeoutSeconds(config[u]))
              => Rejects(u)]_vars

\* C33: the failure of a probe that is recorded with the breaker open leaves
\* it open, counts one more failure and sets the time of the last failure to
\* the time of the recording; an open breaker is closed by recordSuccess
\* only; and a call that starts with the breaker open, not more than the
\* circuit timeout after the latest recorded failure, is rejected without a
\* Create call.
C33_OpenUntilSuccess ==
    [][/\ \A t \in Tasks :
            /\ (Probe(t) /\ cb.isOpen
                  /\ pc[t] = "recordFailureBody" /\ pc'[t] # "recordFailureBody")
                  => /\ cb'.isOpen
                     /\ cb'.lastFailure = now
                     /\ cb'.failures = cb.failures + 1
            /\ (Checks(t) /\ cb.isOpen
                  /\ Since(cb.lastFailure) <= timeoutSeconds(config[t]))
                  => Rejects(t)
       /\ (cb.isOpen /\ ~cb'.isOpen)
            => \E t \in Tasks : pc[t] = "recordSuccess" /\ pc'[t] = "returned"]_vars

\* a probe has failed and returned, the breaker is open with two failures,
\* and the call that came next was rejected without a Create call
C33_Witness ==
    \E t \in Tasks, u \in Tasks :
        /\ t # u
        /\ Probe(t) /\ pc[t] = "returned" /\ rbErr[t] # Nil /\ fnFails[t] = 1
        /\ cb.isOpen /\ cb.failures = 2
        /\ chk[u].done /\ chk[u].open /\ ~chk[u].elapsed
        /\ pc[u] = "returned" /\ rbErr[u] = ErrCircuitOpen /\ calls[u] = 0

\* the value the claim gives a setting: the integer when the string parses
\* to one above zero, the default otherwise
Claimed(s, default) == IF Atoi(s).ok /\ Atoi(s).v > 0 THEN Atoi(s).v ELSE default

\* C39: each of the five settings has the value of its string when the
\* string parses to an integer above zero, and its default (3 attempts, 2 s,
\* 5 failures, 30 s, 5 s) otherwise; the number of attempts is at least one.
C39_ParsedOrDefault ==
    effective # None =>
        /\ effective.attempts = Claimed(configMapData.TektonRetryAttempts, 3)
        /\ effective.attempts >= 1
        /\ effective.delay = Claimed(configMapData.TektonRetryDelaySeconds, 2) * Second
        /\ effective.threshold = Claimed(configMapData.CircuitBreakerThreshold, 5)
        /\ effective.circuitTimeout =
               Claimed(configMapData.CircuitBreakerTimeout, 30) * Second
        /\ effective.callTimeout =
               Claimed(configMapData.TektonTimeoutSeconds, 5) * Second

====
